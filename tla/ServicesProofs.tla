--------------------------- MODULE ServicesProofs ---------------------------
(***************************************************************************)
(* Proofs about the services beside the goals, each on its own: the        *)
(* lifecycle of a Skill, the review of completed Features, the processes   *)
(* of a provider, the notifications of Feature Plans, the messages of      *)
(* Telegram with the intake of work, the chat of the dashboard and the     *)
(* reviews of people.                                                      *)
(***************************************************************************)
EXTENDS SkillLifecycle, ImprovementReview, ProviderProcess, LifecycleNotifier,
        TelegramGateway, OperationalChat, HumanReview, SelfUpdate, NaturalOrder,
        FiniteSetTheorems

-----------------------------------------------------------------------------
\* SkillLifecycle.  A version that ever got past its evaluation was approved, and
\* stays so; a retired one may be restored without another approval.

Vetted(v) == approver[v] # "nobody" /\ (skillOwner # "system" => approver[v] = "human")

\* Of rows of versions: which is active, and that it and the approved were vetted.
OnlyActive(vs, active) ==
  /\ vs \in [SkillVersions -> VersionRow]
  /\ active \in SkillVersions \cup {0}
  /\ \A v \in SkillVersions : vs[v].status = "active" <=> v = active
AllVetted(vs) ==
  \A v \in SkillVersions : vs[v].status \in {"approved", "active", "retired"} => Vetted(v)

SkillInv ==
  /\ SkillTypeOK
  /\ OnlyActive(version, activeSkill) /\ AllVetted(version)
  /\ \A v \in pins : Vetted(v)

LEMMA SkillInitHolds == SkillInit => SkillInv
<1> SUFFICES ASSUME SkillInit PROVE SkillInv
  OBVIOUS
<1>1. Unregistered \in VersionRow /\ Unregistered.status = "none"
  BY DEF Unregistered, VersionRow
<1>2. version \in [SkillVersions -> VersionRow] /\ \A v \in SkillVersions : version[v] = Unregistered
  BY <1>1 DEF SkillInit
<1>3. SkillTypeOK
  BY <1>2 DEF SkillInit, SkillTypeOK
<1>4. OnlyActive(version, activeSkill) /\ AllVetted(version)
  BY <1>1, <1>2, VersionsAreHashes DEF SkillInit, OnlyActive, AllVetted
<1> QED BY <1>3, <1>4 DEF SkillInv, SkillInit

\* A version gets another status, which is not "active".
LEMMA StatusChanges ==
  ASSUME NEW vs \in [SkillVersions -> VersionRow], NEW v \in SkillVersions,
         NEW s \in {"candidate", "evaluated", "approved", "active", "retired"}
  PROVE  LET ws == WithVersionStatus(vs, v, s) IN
         /\ ws \in [SkillVersions -> VersionRow]
         /\ ws[v].status = s /\ ws[v].eval = vs[v].eval
         /\ \A w \in SkillVersions \ {v} : ws[w] = vs[w]
  BY DEF WithVersionStatus, VersionRow

\* An evaluation makes a version "evaluated" or leaves its status.
LEMMA EvaluationChanges ==
  ASSUME NEW vs \in [SkillVersions -> VersionRow], NEW v \in SkillVersions,
         NEW outcome \in {"passed", "failed"}
  PROVE  LET ws == Evaluated(vs, v, outcome) IN
         /\ ws \in [SkillVersions -> VersionRow]
         /\ \/ ws[v].status = vs[v].status
            \/ vs[v].status = "candidate" /\ ws[v].status = "evaluated"
         /\ \A w \in SkillVersions \ {v} : ws[w] = vs[w]
  BY DEF Evaluated, VersionRow

\* promoteVersion moves "active" from one version to another.
LEMMA PromotionMoves ==
  ASSUME NEW vs, NEW active, OnlyActive(vs, active), NEW v \in SkillVersions
  PROVE  LET ws == Promoted(vs, active, v) IN
         /\ OnlyActive(ws, v)
         /\ \A w \in SkillVersions : ws[w].status = "approved" => vs[w].status \in {"approved", "active"}
         /\ \A w \in SkillVersions : ws[w].status = "retired" => vs[w].status = "retired"
<1> DEFINE us == IF active \in SkillVersions \ {v}
                 THEN WithVersionStatus(vs, active, "approved") ELSE vs
<1>1. us \in [SkillVersions -> VersionRow]
  BY StatusChanges DEF OnlyActive
<1>2. \A w \in SkillVersions \ {active} : us[w] = vs[w]
  BY StatusChanges DEF OnlyActive
<1>3. active \in SkillVersions \ {v} => us[active].status = "approved"
  BY StatusChanges DEF OnlyActive
<1>4. Promoted(vs, active, v) = WithVersionStatus(us, v, "active")
  BY DEF Promoted
<1>5. active \notin SkillVersions \ {v} => us = vs
  OBVIOUS
<1> HIDE DEF us
<1> DEFINE ws == WithVersionStatus(us, v, "active")
<1>6. /\ ws \in [SkillVersions -> VersionRow] /\ ws[v].status = "active"
      /\ \A w \in SkillVersions \ {v} : ws[w] = us[w]
  BY <1>1, StatusChanges
<1> HIDE DEF ws
<1>7. \A w \in SkillVersions \ {v} : us[w].status # "active"
  BY <1>2, <1>3, <1>5 DEF OnlyActive
<1>8. OnlyActive(ws, v)
  BY <1>6, <1>7 DEF OnlyActive
<1>9. \A w \in SkillVersions :
        /\ ws[w].status = "approved" => vs[w].status \in {"approved", "active"}
        /\ ws[w].status = "retired" => vs[w].status = "retired"
  BY <1>2, <1>3, <1>5, <1>6 DEF OnlyActive
<1> QED BY <1>4, <1>8, <1>9 DEF ws

\* A step that changes rows and the approvals of those it approves.
LEMMA RowsChange ==
  ASSUME SkillInv, OnlyActive(version', activeSkill'), AllVetted(version)',
         approver' \in [SkillVersions -> {"nobody", "human", "bootstrap"}],
         \A v \in SkillVersions : Vetted(v) => Vetted(v)', skillsUp' \in BOOLEAN,
         UNCHANGED <<skillOwner, draft, skillsEnabled, pins, loaded>>
  PROVE  SkillInv'
<1>1. SkillTypeOK'
  BY DEF SkillInv, SkillTypeOK, OnlyActive
<1>2. \A v \in pins' : Vetted(v)'
  BY DEF SkillInv, SkillTypeOK
<1> QED BY <1>1, <1>2 DEF SkillInv, OnlyActive

\* Without an approval it is enough that nothing unapproved gets on.
LEMMA RowsMove ==
  ASSUME SkillInv, OnlyActive(version', activeSkill'),
         \A v \in SkillVersions : version'[v].status \in {"approved", "active", "retired"} =>
                                   version[v].status \in {"approved", "active", "retired"},
         UNCHANGED <<skillOwner, approver, draft, skillsEnabled, pins, loaded, skillsUp>>
  PROVE  SkillInv'
<1>1. AllVetted(version)'
  BY DEF SkillInv, AllVetted, Vetted
<1> QED BY <1>1, RowsChange DEF SkillInv, SkillTypeOK, Vetted

LEMMA PromoteStep == ASSUME SkillInv, NEW v \in SkillVersions, Promote(v) PROVE SkillInv'
<1>1. /\ Promotable(version, v) /\ version' = Promoted(version, activeSkill, v) /\ activeSkill' = v
      /\ UNCHANGED <<skillOwner, approver, draft, skillsEnabled, pins, loaded, skillsUp>>
  BY DEF Promote
<1>2. OnlyActive(version, activeSkill) /\ version \in [SkillVersions -> VersionRow]
  BY DEF SkillInv, OnlyActive
<1>3. /\ OnlyActive(version', activeSkill')
      /\ \A w \in SkillVersions : version'[w].status = "approved" => version[w].status \in {"approved", "active"}
      /\ \A w \in SkillVersions : version'[w].status = "retired" => version[w].status = "retired"
  BY <1>1, <1>2, PromotionMoves
<1>4. version[v].status \in {"approved", "active"}
  BY <1>1 DEF Promotable
<1>5. \A w \in SkillVersions : version'[w].status \in {"approved", "active", "retired"} =>
                                version[w].status \in {"approved", "active", "retired"}
  BY <1>1, <1>3, <1>4 DEF OnlyActive
<1> QED BY <1>1, <1>3, <1>5, RowsMove

LEMMA EvaluateStep == ASSUME SkillInv, NEW v \in SkillVersions, EvaluateVersion(v) PROVE SkillInv'
<1>1. PICK outcome \in {"passed", "failed"} : version' = Evaluated(version, v, outcome)
  BY DEF EvaluateVersion
<1>2. UNCHANGED <<skillOwner, activeSkill, approver, draft, skillsEnabled, pins, loaded, skillsUp>>
  BY DEF EvaluateVersion
<1>3. /\ version' \in [SkillVersions -> VersionRow]
      /\ \/ version'[v].status = version[v].status
         \/ version[v].status = "candidate" /\ version'[v].status = "evaluated"
      /\ \A w \in SkillVersions \ {v} : version'[w] = version[w]
  BY <1>1, EvaluationChanges DEF SkillInv, OnlyActive
<1>4. OnlyActive(version', activeSkill')
  BY <1>2, <1>3 DEF SkillInv, OnlyActive
<1> QED BY <1>2, <1>3, <1>4, RowsMove

LEMMA StatusStep ==
  ASSUME SkillInv, NEW v \in SkillVersions,
         ApproveVersion(v) \/ RestoreVersion(v) \/ \E actor \in {"human", "curator"} : ArchiveVersion(v, actor)
  PROVE  SkillInv'
<1>0. OnlyActive(version, activeSkill) /\ version \in [SkillVersions -> VersionRow]
  BY DEF SkillInv, OnlyActive
<1>1. CASE ApproveVersion(v)
  <2>1. /\ version[v].status = "evaluated" /\ version' = WithVersionStatus(version, v, "approved")
        /\ approver' = [approver EXCEPT ![v] = "human"]
        /\ UNCHANGED <<skillOwner, activeSkill, draft, skillsEnabled, pins, loaded, skillsUp>>
    BY <1>1 DEF ApproveVersion, IsStatus
  <2>2. /\ version' \in [SkillVersions -> VersionRow] /\ version'[v].status = "approved"
        /\ \A w \in SkillVersions \ {v} : version'[w] = version[w]
    BY <1>0, <2>1, StatusChanges
  <2>3. OnlyActive(version', activeSkill')
    BY <1>0, <2>1, <2>2 DEF OnlyActive
  <2>4. /\ approver' \in [SkillVersions -> {"nobody", "human", "bootstrap"}] /\ Vetted(v)'
        /\ \A w \in SkillVersions : Vetted(w) => Vetted(w)'
    BY <2>1 DEF SkillInv, SkillTypeOK, Vetted
  <2>5. AllVetted(version)'
    BY <2>2, <2>4 DEF SkillInv, AllVetted
  <2> QED BY <2>1, <2>3, <2>4, <2>5, RowsChange DEF SkillInv, SkillTypeOK
<1>2. CASE RestoreVersion(v)
  <2>1. /\ version[v].status = "retired" /\ version' = WithVersionStatus(version, v, "approved")
        /\ UNCHANGED <<skillOwner, activeSkill, approver, draft, skillsEnabled, pins, loaded, skillsUp>>
    BY <1>2 DEF RestoreVersion, IsStatus
  <2>2. /\ version' \in [SkillVersions -> VersionRow] /\ version'[v].status = "approved"
        /\ \A w \in SkillVersions \ {v} : version'[w] = version[w]
    BY <1>0, <2>1, StatusChanges
  <2>3. OnlyActive(version', activeSkill')
    BY <1>0, <2>1, <2>2 DEF OnlyActive
  <2> QED BY <2>1, <2>2, <2>3, RowsMove
<1>3. CASE \E actor \in {"human", "curator"} : ArchiveVersion(v, actor)
  <2>1. /\ activeSkill = v /\ version' = WithVersionStatus(version, v, "retired") /\ activeSkill' = 0
        /\ UNCHANGED <<skillOwner, approver, draft, skillsEnabled, pins, loaded, skillsUp>>
    BY <1>3 DEF ArchiveVersion
  <2>2. /\ version' \in [SkillVersions -> VersionRow] /\ version'[v].status = "retired"
        /\ \A w \in SkillVersions \ {v} : version'[w] = version[w]
    BY <1>0, <2>1, StatusChanges
  <2>3. OnlyActive(version', activeSkill')
    BY <1>0, <2>1, <2>2, VersionsAreHashes DEF OnlyActive
  <2>4. version[v].status = "active"
    BY <1>0, <2>1 DEF OnlyActive
  <2> QED BY <2>1, <2>2, <2>3, <2>4, RowsMove
<1> QED BY <1>1, <1>2, <1>3

\* The start of the program approves and activates built-in Skills only.
LEMMA BootStep == ASSUME SkillInv, NEW v \in SkillVersions, Boot(v) PROVE SkillInv'
<1> DEFINE registered == Registered(v)
<1>1. PICK outcome \in {"passed", "failed"} :
        LET evaluated == IF registered[v].status = "candidate"
                         THEN Evaluated(registered, v, outcome) ELSE registered
            approved == IF evaluated[v].status = "evaluated"
                        THEN WithVersionStatus(evaluated, v, "approved") ELSE evaluated
        IN /\ UNCHANGED <<skillOwner, draft, skillsEnabled, pins, loaded>>
           /\ skillsUp' \in BOOLEAN
           /\ \/ version' = registered /\ UNCHANGED <<activeSkill, approver>>
              \/ version' = evaluated /\ UNCHANGED <<activeSkill, approver>>
              \/ /\ skillOwner = "system"
                 /\ approver' = IF evaluated[v].status = "evaluated"
                                THEN [approver EXCEPT ![v] = "bootstrap"] ELSE approver
                 /\ \/ version' = approved /\ UNCHANGED activeSkill
                    \/ /\ approved[v].status = "approved" /\ version' = Promoted(approved, activeSkill, v)
                       /\ activeSkill' = v
  BY DEF Boot
<1> DEFINE evaluated == IF registered[v].status = "candidate"
                        THEN Evaluated(registered, v, outcome) ELSE registered
           approved == IF evaluated[v].status = "evaluated"
                       THEN WithVersionStatus(evaluated, v, "approved") ELSE evaluated
<1>2. OnlyActive(version, activeSkill) /\ version \in [SkillVersions -> VersionRow]
  BY DEF SkillInv, OnlyActive
<1>3. /\ registered \in [SkillVersions -> VersionRow]
      /\ \/ registered[v].status = version[v].status
         \/ version[v].status = "none" /\ registered[v].status = "candidate"
      /\ \A w \in SkillVersions \ {v} : registered[w] = version[w]
  BY <1>2, StatusChanges DEF Registered, IsStatus
<1> HIDE DEF registered
<1>4. /\ evaluated \in [SkillVersions -> VersionRow]
      /\ \/ evaluated[v].status = version[v].status
         \/ evaluated[v].status \in {"candidate", "evaluated"} /\ version[v].status \in {"none", "candidate"}
      /\ \A w \in SkillVersions \ {v} : evaluated[w] = version[w]
  BY <1>3, EvaluationChanges
<1> HIDE DEF evaluated
<1>5. /\ approved \in [SkillVersions -> VersionRow]
      /\ evaluated[v].status = "evaluated" => approved[v].status = "approved"
      /\ evaluated[v].status # "evaluated" => approved = evaluated
      /\ \A w \in SkillVersions \ {v} : approved[w] = version[w]
  BY <1>4, StatusChanges
<1> HIDE DEF approved
<1>6. OnlyActive(registered, activeSkill) /\ OnlyActive(evaluated, activeSkill) /\ OnlyActive(approved, activeSkill)
  BY <1>2, <1>3, <1>4, <1>5 DEF OnlyActive
<1>7. CASE version' \in {registered, evaluated} /\ UNCHANGED <<activeSkill, approver>>
  <2>1. OnlyActive(version', activeSkill')
    BY <1>6, <1>7
  <2>2. AllVetted(version)'
    BY <1>1, <1>3, <1>4, <1>7 DEF SkillInv, AllVetted, Vetted
  <2> QED BY <1>1, <1>7, <2>1, <2>2, RowsChange DEF SkillInv, SkillTypeOK, Vetted
<1>8. CASE /\ skillOwner = "system"
           /\ approver' = IF evaluated[v].status = "evaluated"
                          THEN [approver EXCEPT ![v] = "bootstrap"] ELSE approver
           /\ \/ version' = approved /\ UNCHANGED activeSkill
              \/ /\ approved[v].status = "approved" /\ version' = Promoted(approved, activeSkill, v)
                 /\ activeSkill' = v
  <2>1. /\ approver' \in [SkillVersions -> {"nobody", "human", "bootstrap"}]
        /\ \A w \in SkillVersions : Vetted(w) => Vetted(w)'
        /\ evaluated[v].status = "evaluated" => Vetted(v)'
    BY <1>1, <1>8 DEF SkillInv, SkillTypeOK, Vetted
  <2>2. \A w \in SkillVersions : approved[w].status \in {"approved", "active", "retired"} => Vetted(w)'
    BY <1>4, <1>5, <2>1 DEF SkillInv, AllVetted
  <2>3. CASE version' = approved /\ UNCHANGED activeSkill
    <3>1. AllVetted(version)'
      BY <2>2, <2>3 DEF AllVetted
    <3> QED BY <1>1, <1>6, <2>1, <2>3, <3>1, RowsChange
  <2>4. CASE /\ approved[v].status = "approved" /\ version' = Promoted(approved, activeSkill, v)
             /\ activeSkill' = v
    <3>1. /\ OnlyActive(version', activeSkill')
          /\ \A w \in SkillVersions : version'[w].status = "approved" => approved[w].status \in {"approved", "active"}
          /\ \A w \in SkillVersions : version'[w].status = "retired" => approved[w].status = "retired"
      BY <1>6, <2>4, PromotionMoves
    <3>2. \A w \in SkillVersions : version'[w].status \in {"approved", "active", "retired"} => Vetted(w)'
      BY <2>2, <2>4, <3>1 DEF OnlyActive
    <3>3. AllVetted(version)'
      BY <3>2 DEF AllVetted
    <3> QED BY <1>1, <2>1, <3>1, <3>3, RowsChange
  <2> QED BY <1>8, <2>3, <2>4
<1> QED BY <1>1, <1>7, <1>8 DEF evaluated, approved

\* A Goal pins what is active, and what it pinned before.
LEMMA LoadStep == SkillInv /\ StepLoadsSkill => SkillInv'
<1> SUFFICES ASSUME SkillInv, StepLoadsSkill PROVE SkillInv'
  OBVIOUS
<1>1. UNCHANGED <<skillOwner, version, activeSkill, approver, draft, skillsEnabled, skillsUp>>
  BY DEF StepLoadsSkill
<1>2. \A v \in SelectedVersions : v \in SkillVersions /\ version[v].status = "active"
  BY DEF SelectedVersions, IsStatus, SkillInv, SkillTypeOK
<1>3. \A v \in SelectedVersions : Vetted(v)
  BY <1>2 DEF SkillInv, AllVetted
<1>4. pins' \subseteq pins \cup SelectedVersions /\ loaded' \in SelectedVersions \cup {0}
  BY DEF StepLoadsSkill
<1>5. \A v \in pins' : Vetted(v)'
  BY <1>1, <1>3, <1>4 DEF SkillInv, Vetted
<1>6. pins' \subseteq SkillVersions /\ loaded' \in SkillVersions \cup {0}
  BY <1>2, <1>4 DEF SkillInv, SkillTypeOK
<1> QED BY <1>1, <1>5, <1>6 DEF SkillInv, SkillTypeOK, OnlyActive, AllVetted, Vetted

LEMMA SkillStep == SkillInv /\ [SkillNext]_skillVars => SkillInv'
<1> SUFFICES ASSUME SkillInv, [SkillNext]_skillVars PROVE SkillInv'
  OBVIOUS
<1>1. CASE RequestDraft \/ LinkDraft \/ SwitchSkills \/ NextGoalStarts \/ UNCHANGED skillVars
  <2>1. /\ UNCHANGED <<skillOwner, version, activeSkill, approver, skillsUp>>
        /\ pins' \in {{}, pins} /\ loaded' \in {0, loaded}
        /\ draft' \in {"requested", "linked", draft}
    BY <1>1 DEF RequestDraft, LinkDraft, SwitchSkills, NextGoalStarts, skillVars
  <2>2. skillsEnabled' \in BOOLEAN
    BY <1>1 DEF RequestDraft, LinkDraft, SwitchSkills, NextGoalStarts, skillVars, SkillInv, SkillTypeOK
  <2> QED BY <2>1, <2>2 DEF SkillInv, SkillTypeOK, OnlyActive, AllVetted, Vetted
<1>2. ASSUME NEW v \in SkillVersions,
             \/ Boot(v) \/ EvaluateVersion(v) \/ ApproveVersion(v) \/ Promote(v) \/ RestoreVersion(v)
             \/ \E actor \in {"human", "curator"} : ArchiveVersion(v, actor)
      PROVE  SkillInv'
  BY <1>2, BootStep, EvaluateStep, PromoteStep, StatusStep
<1> QED BY <1>1, <1>2, LoadStep DEF SkillNext, ActivateVersion, RollbackVersion

LEMMA SkillInvariant == SkillSpec => []SkillInv
  BY SkillInitHolds, SkillStep, PTL DEF SkillSpec

\* The rows of a Skill, its pins and its settings keep their types (src/skills).
THEOREM SkillTypeCorrect == SkillSpec => []SkillTypeOK
<1>1. SkillInv => SkillTypeOK
  BY DEF SkillInv
<1> QED BY <1>1, SkillInvariant, PTL

\* However often versions are activated, rolled back, archived, restored and
\* bootstrapped, the one that is active is the one the Skill points at, and what a Goal
\* pinned was approved first, by a person unless the Skill is built in
\* (promoteVersion, archiveSkillVersion, pinGoalSkill).
THEOREM ServedSkillIsVettedHolds == SkillSpec => []ServedSkillIsVetted
<1>1. SkillInv => ServedSkillIsVetted
  <2> SUFFICES ASSUME SkillInv PROVE ServedSkillIsVetted
    OBVIOUS
  <2>1. {v \in SkillVersions : IsStatus(v, "active")} = {activeSkill} \ {0}
    BY VersionsAreHashes DEF SkillInv, OnlyActive, IsStatus
  <2>2. \A v \in {activeSkill} \ {0} : Vetted(v)
    BY DEF SkillInv, OnlyActive, AllVetted
  <2> QED BY <2>1, <2>2 DEF ServedSkillIsVetted, SkillInv, Vetted
<1> QED BY <1>1, SkillInvariant, PTL

-----------------------------------------------------------------------------
\* ImprovementReview.  Only a candidate is decided on, and only a new idea is one.

ReviewerState ==
  [at : {"idle", "reviewing", "drafts", "notifying"}, review : Reviews \cup {0}, drafts : SUBSET Ideas]

ReviewInv ==
  /\ ReviewTypeOK
  /\ reviewer.at # "idle" => reviewer.review \in Reviews
  /\ \A i \in Ideas : entered[i] = IF proposal[i] = "approved" THEN 1 ELSE 0

LEMMA ReviewInitHolds == ReviewInit => ReviewInv
<1> SUFFICES ASSUME ReviewInit PROVE ReviewInv
  OBVIOUS
<1>1. NoRow \in OutboxRow /\ workerId \in 0..MaxReviewRestarts
  BY RestartBound DEF NoRow, OutboxRow, ReviewInit
<1>2. ReviewTypeOK
  BY <1>1 DEF ReviewInit, ReviewTypeOK, IdleReviewer
<1> QED BY <1>2 DEF ReviewInit, ReviewInv, IdleReviewer

\* The outbox and the worker move, and no idea does.
LEMMA IdeasStay ==
  ASSUME ReviewInv, outbox' \in [Reviews -> OutboxRow], reviewer' \in ReviewerState,
         reviewer'.at # "idle" => reviewer'.review \in Reviews,
         workerId' \in 0..MaxReviewRestarts, UNCHANGED <<proposal, entered>>
  PROVE  ReviewInv'
  BY DEF ReviewInv, ReviewTypeOK, ReviewerState

LEMMA OutboxStep ==
  ASSUME ReviewInv, NEW r \in Reviews, Enqueue(r) \/ Claim(r) \/ LeaseExpires(r) PROVE ReviewInv'
<1>1. CASE Enqueue(r) \/ LeaseExpires(r)
  <2>1. outbox' \in [Reviews -> OutboxRow] /\ UNCHANGED <<proposal, entered, reviewer, workerId>>
    BY <1>1 DEF Enqueue, LeaseExpires, ReviewInv, ReviewTypeOK, OutboxRow
  <2> QED BY <2>1, IdeasStay DEF ReviewInv, ReviewTypeOK, ReviewerState
<1>2. CASE Claim(r)
  <2>1. [status |-> "running", lease |-> "valid", owner |-> workerId] \in OutboxRow
    BY DEF ReviewInv, ReviewTypeOK, OutboxRow
  <2>2. outbox' \in [Reviews -> OutboxRow]
    BY <1>2, <2>1 DEF Claim, ReviewInv, ReviewTypeOK
  <2>3. reviewer' \in ReviewerState /\ reviewer'.review \in Reviews
    BY <1>2 DEF Claim, ReviewerState
  <2> QED BY <1>2, <2>2, <2>3, IdeasStay DEF Claim, ReviewInv, ReviewTypeOK
<1> QED BY <1>1, <1>2

\* What finishing a review leaves is an outbox.
LEMMA FinishedTyped ==
  ASSUME ReviewInv, NEW status \in {"waiting_provider", "failed", "succeeded"}
  PROVE  Finished(reviewer.review, status) \in [Reviews -> OutboxRow]
<1>1. [status |-> status, lease |-> "none", owner |-> 0] \in OutboxRow
  BY RestartBound DEF OutboxRow
<1> QED BY <1>1 DEF Finished, ReviewInv, ReviewTypeOK

LEMMA WorkerStep ==
  ReviewInv /\ (ReviewAnswered \/ Notified \/ ReviewSucceeds \/ ReviewerRestarts) => ReviewInv'
<1> SUFFICES ASSUME ReviewInv, ReviewAnswered \/ Notified \/ ReviewSucceeds \/ ReviewerRestarts
             PROVE  ReviewInv'
  OBVIOUS
<1>1. /\ UNCHANGED <<proposal, entered>> /\ reviewer \in ReviewerState
      /\ outbox \in [Reviews -> OutboxRow] /\ workerId \in 0..MaxReviewRestarts
      /\ IdleReviewer \in ReviewerState /\ IdleReviewer.at = "idle"
  BY DEF ReviewAnswered, Notified, ReviewSucceeds, ReviewerRestarts, ReviewInv, ReviewTypeOK,
         ReviewerState, IdleReviewer
<1>2. workerId' \in 0..MaxReviewRestarts
  <2>1. \/ UNCHANGED workerId
        \/ workerId < MaxReviewRestarts /\ workerId' = workerId + 1
    BY DEF ReviewAnswered, Notified, ReviewSucceeds, ReviewerRestarts
  <2> QED BY <1>1, <2>1, RestartBound
<1>3. outbox' \in [Reviews -> OutboxRow]
  BY <1>1, FinishedTyped DEF ReviewAnswered, Notified, ReviewSucceeds, ReviewerRestarts
<1>4. CASE reviewer' = IdleReviewer
  BY <1>1, <1>2, <1>3, <1>4, IdeasStay
<1>5. ASSUME NEW at \in {"drafts", "notifying"}, NEW drafts \in SUBSET Ideas, reviewer.at # "idle",
             reviewer' = [reviewer EXCEPT !.at = at, !.drafts = drafts]
      PROVE  ReviewInv'
  <2>1. reviewer' \in ReviewerState /\ reviewer'.review = reviewer.review
    BY <1>1, <1>5 DEF ReviewerState
  <2> QED BY <1>1, <1>2, <1>3, <1>5, <2>1, IdeasStay DEF ReviewInv
<1>6. CASE Notified
  <2>1. /\ reviewer.at # "idle" /\ reviewer.drafts \in SUBSET Ideas
        /\ reviewer' = [reviewer EXCEPT !.at = "drafts", !.drafts = reviewer.drafts]
    BY <1>1, <1>6 DEF Notified, ReviewerState
  <2> QED BY <1>5, <2>1
<1>7. CASE ReviewAnswered
  BY <1>4, <1>5, <1>7 DEF ReviewAnswered
<1> QED BY <1>4, <1>6, <1>7 DEF ReviewSucceeds, ReviewerRestarts

LEMMA IdeaStep ==
  ASSUME ReviewInv, NEW i \in Ideas,
         DraftProposed(i) \/ \E status \in {"approved", "rejected"} : Decide(i, status)
  PROVE  ReviewInv'
<1>0. /\ proposal \in [Ideas -> {"none", "candidate", "approved", "rejected"}]
      /\ entered \in [Ideas -> Nat] /\ reviewer \in ReviewerState
      /\ \A j \in Ideas : entered[j] = IF proposal[j] = "approved" THEN 1 ELSE 0
  BY DEF ReviewInv, ReviewTypeOK, ReviewerState
<1>1. CASE DraftProposed(i)
  <2>1. /\ reviewer.at = "drafts" /\ UNCHANGED <<outbox, entered, workerId>>
        /\ \E at \in {"drafts", "notifying"} : reviewer' = [reviewer EXCEPT !.at = at, !.drafts = reviewer.drafts \ {i}]
        /\ \/ UNCHANGED proposal
           \/ proposal[i] = "none" /\ proposal' = [proposal EXCEPT ![i] = "candidate"]
    BY <1>0, <1>1 DEF DraftProposed, Novel, ReviewerState
  <2>2. reviewer' \in ReviewerState /\ reviewer'.review = reviewer.review
    <3>1. PICK at \in {"drafts", "notifying"} :
            reviewer' = [reviewer EXCEPT !.at = at, !.drafts = reviewer.drafts \ {i}]
      BY <2>1
    <3> QED BY <1>0, <3>1 DEF ReviewerState
  <2>3. /\ proposal' \in [Ideas -> {"none", "candidate", "approved", "rejected"}]
        /\ \A j \in Ideas : (proposal'[j] = "approved") = (proposal[j] = "approved")
    BY <1>0, <2>1
  <2>4. ReviewTypeOK'
    BY <2>1, <2>2, <2>3 DEF ReviewInv, ReviewTypeOK, ReviewerState
  <2> QED BY <1>0, <2>1, <2>2, <2>3, <2>4 DEF ReviewInv
<1>2. CASE \E status \in {"approved", "rejected"} : Decide(i, status)
  <2>1. PICK status \in {"approved", "rejected"} :
          /\ proposal[i] = "candidate" /\ proposal' = [proposal EXCEPT ![i] = status]
          /\ entered' = IF status = "approved" THEN [entered EXCEPT ![i] = entered[i] + 1] ELSE entered
          /\ UNCHANGED <<outbox, reviewer, workerId>>
    BY <1>2 DEF Decide
  <2>2. proposal' \in [Ideas -> {"none", "candidate", "approved", "rejected"}] /\ entered' \in [Ideas -> Nat]
    BY <1>0, <2>1
  <2>3. entered[i] = 0
    BY <1>0, <2>1
  <2>4. \A j \in Ideas : entered'[j] = IF proposal'[j] = "approved" THEN 1 ELSE 0
    BY <1>0, <2>1, <2>3
  <2> QED BY <2>1, <2>2, <2>4 DEF ReviewInv, ReviewTypeOK
<1> QED BY <1>1, <1>2

LEMMA ReviewStep == ReviewInv /\ [ReviewNext]_reviewVars => ReviewInv'
<1> SUFFICES ASSUME ReviewInv, [ReviewNext]_reviewVars PROVE ReviewInv'
  OBVIOUS
<1>1. CASE UNCHANGED reviewVars
  BY <1>1 DEF ReviewInv, ReviewTypeOK, reviewVars
<1> QED BY <1>1, OutboxStep, WorkerStep, IdeaStep DEF ReviewNext

LEMMA ReviewInvariant == ReviewSpec => []ReviewInv
  BY ReviewInitHolds, ReviewStep, PTL DEF ReviewSpec

\* The outbox of completed Features, the proposals and the worker keep their types.
THEOREM ReviewTypeCorrect == ReviewSpec => []ReviewTypeOK
<1>1. ReviewInv => ReviewTypeOK
  BY DEF ReviewInv
<1> QED BY <1>1, ReviewInvariant, PTL

\* No step of a review, of a repeated one or of a person changes a decision, and an idea
\* is entered into the backlog with its approval and never again, for any Features, ideas
\* and restarts (evaluateCandidate, createImprovementProposal, decideImprovementProposal).
THEOREM DecisionIsFinalHolds == ReviewSpec => DecisionIsFinal
<1> DEFINE Step == \A i \in Ideas :
             /\ proposal[i] \in {"approved", "rejected"} => proposal'[i] = proposal[i]
             /\ entered'[i] = (IF proposal'[i] = "approved" THEN 1 ELSE 0)
<1>1. ASSUME ReviewInv, ReviewInv', [ReviewNext]_reviewVars PROVE Step
  <2>1. \A i \in Ideas : entered'[i] = (IF proposal'[i] = "approved" THEN 1 ELSE 0)
    BY <1>1 DEF ReviewInv
  <2>2. \/ UNCHANGED proposal
        \/ \E i \in Ideas, status \in {"candidate", "approved", "rejected"} :
             proposal[i] \in {"none", "candidate"} /\ proposal' = [proposal EXCEPT ![i] = status]
    BY <1>1 DEF ReviewNext, reviewVars, Enqueue, Claim, LeaseExpires, ReviewAnswered, DraftProposed,
                Novel, Decide, Notified, ReviewSucceeds, ReviewerRestarts
  <2>3. proposal \in [Ideas -> {"none", "candidate", "approved", "rejected"}]
    BY <1>1 DEF ReviewInv, ReviewTypeOK
  <2> QED BY <2>1, <2>2, <2>3
<1> QED BY <1>1, ReviewInvariant, PTL DEF ReviewSpec, DecisionIsFinal

-----------------------------------------------------------------------------
\* ProviderProcess.  Who stopped an execution first decides what it returns.

ReportedSound(x) ==
  x.at = "returned" =>
    /\ x.aborted => x.outcome \in {"cancelled", "failed"}
    /\ x.aborted /\ adapter \in Commands => x.outcome = "cancelled"
    /\ x.outcome = "failed" /\ adapter \in Commands /\ x.code = "other" =>
         /\ x.stoppedBy \in Floods => x.category \notin Retryable
         /\ x.stoppedBy \in Overdue => x.category \in Retryable

\* An execution that nobody stopped has no reason to; one that a timer or a flood
\* stopped keeps that reason; only a command has a child.
SoundExecution(x) ==
  /\ x \in Execution
  /\ x.at \in {"idle", "running"} => x.breaker = "none" /\ x.stoppedBy = "none" /\ ~x.aborted
  /\ x.stoppedBy \in Overdue \cup Floods => x.breaker = x.stoppedBy
  /\ x.child # "none" => adapter \in Commands
  /\ ReportedSound(x)

HealthValues == {"unknown", "ready", "auth_required", "offline", "quota"}
ProcessInv ==
  /\ adapter \in Adapters /\ probing \in BOOLEAN /\ health \in HealthValues
  /\ exec \in [Executions -> Execution]
  /\ \A e \in Executions : SoundExecution(exec[e])

LEMMA NoExecutionSound ==
  /\ SoundExecution(NoExecution)
  /\ \A limited \in BOOLEAN : SoundExecution([NoExecution EXCEPT !.limited = limited])
<1>1. NoExecution \in Execution
  BY ReceivedBounds DEF NoExecution, Execution
<1>2. /\ NoExecution.at = "idle" /\ NoExecution.breaker = "none" /\ NoExecution.stoppedBy = "none"
      /\ NoExecution.child = "none" /\ ~NoExecution.aborted
  BY DEF NoExecution
<1>3. "none" \notin Overdue \cup Floods
  BY DEF Overdue, Floods
<1>4. ASSUME NEW limited \in BOOLEAN
      PROVE  SoundExecution([NoExecution EXCEPT !.limited = limited])
  <2> DEFINE x == [NoExecution EXCEPT !.limited = limited]
  <2>1. /\ x.at = "idle" /\ x.breaker = "none" /\ x.stoppedBy = "none" /\ ~x.aborted
        /\ x.child = "none"
    BY <1>1, <1>2 DEF Execution
  <2>2. x \in Execution
    BY <1>1 DEF Execution
  <2> HIDE DEF x
  <2>3. SoundExecution(x)
    BY <1>3, <2>1, <2>2 DEF SoundExecution, ReportedSound
  <2> QED BY <2>3 DEF x
<1> QED BY <1>1, <1>2, <1>3, <1>4 DEF SoundExecution, ReportedSound

LEMMA ProcessInitHolds == ProcessInit => ProcessInv
BY NoExecutionSound DEF ProcessInit, ProcessInv, HealthValues, SoundExecution

\* An execution that goes on may be stopped, and the first reason stands.
LEMMA StopsSound ==
  ASSUME NEW x, SoundExecution(x), x.at \in {"running", "stopping"}, NEW reason \in Overdue \cup Floods
  PROVE  SoundExecution(Tripped(x, reason)) /\ Tripped(x, reason).child = x.child
<1>1. x \in Execution /\ reason \in {"inactivity", "phase_timeout", "deadline", "duplicate_output", "output_limit"}
  BY DEF SoundExecution, Overdue, Floods
<1> DEFINE y == [x EXCEPT !.breaker = reason]
<1>2. y \in Execution /\ y.at = x.at /\ y.breaker = reason /\ y.stoppedBy = x.stoppedBy /\ y.child = x.child
      /\ y.aborted = x.aborted
  BY <1>1 DEF Execution, Overdue, Floods
<1> DEFINE z == [y EXCEPT !.at = "stopping", !.stoppedBy = reason]
<1>3. z \in Execution /\ z.at = "stopping" /\ z.stoppedBy = reason /\ z.breaker = reason /\ z.child = x.child
  <2> HIDE DEF y
  <2>1. z.at = "stopping" /\ z.stoppedBy = reason /\ z.breaker = reason /\ z.child = x.child
    BY <1>2 DEF Execution
  <2>2. z \in Execution
    BY <1>2 DEF Execution
  <2> QED BY <2>1, <2>2
<1> HIDE DEF z
<1>4. CASE x.breaker # "none"
  BY <1>4 DEF Tripped
<1>5. CASE x.breaker = "none" /\ x.at = "running"
  <2>1. Tripped(x, reason) = z
    BY <1>2, <1>5 DEF Tripped, Stops, z
  <2> QED BY <1>3, <2>1 DEF SoundExecution, ReportedSound
<1>6. CASE x.breaker = "none" /\ x.at = "stopping"
  <2>1. Tripped(x, reason) = y
    BY <1>2, <1>6 DEF Tripped, Stops
  <2>2. x.stoppedBy \notin Overdue \cup Floods
    BY <1>6 DEF Overdue, Floods, SoundExecution
  <2> HIDE DEF y
  <2> QED BY <1>2, <1>6, <2>1, <2>2 DEF SoundExecution, ReportedSound
<1> QED BY <1>4, <1>5, <1>6

LEMMA AbortSound ==
  ASSUME NEW x, SoundExecution(x), x.at \in {"running", "stopping"}
  PROVE  SoundExecution(Stops([x EXCEPT !.aborted = TRUE], "abort"))
<1> DEFINE y == [x EXCEPT !.aborted = TRUE]
           z == [y EXCEPT !.at = "stopping", !.stoppedBy = "abort"]
<1>1. /\ y \in Execution /\ y.at = x.at /\ y.breaker = x.breaker /\ y.stoppedBy = x.stoppedBy
      /\ y.child = x.child
  BY DEF SoundExecution, Execution
<1>2. z \in Execution /\ z.at = "stopping" /\ z.stoppedBy = "abort" /\ z.child = x.child
  <2> HIDE DEF y
  <2> QED BY <1>1 DEF Execution
<1>3. Stops(y, "abort") = IF x.at = "running" THEN z ELSE y
  BY <1>1 DEF Stops
<1> HIDE DEF y, z
<1>4. "abort" \notin Overdue \cup Floods
  BY DEF Overdue, Floods
<1>5. SoundExecution(Stops(y, "abort"))
  BY <1>1, <1>2, <1>3, <1>4 DEF SoundExecution, ReportedSound
<1> QED BY <1>5 DEF y

LEMMA ConsumedSound ==
  ASSUME NEW x, SoundExecution(x), x.at \in {"running", "stopping"}, NEW repeated \in BOOLEAN,
         x.received <= MaxReceived, x.repeats < MaxDuplicates
  PROVE  SoundExecution(Consumed(x, repeated))
<1> DEFINE repeats == IF repeated THEN x.repeats + 1 ELSE 0
           y == [x EXCEPT !.received = x.received + 1, !.repeats = repeats]
<1>1. repeats \in 0 .. MaxDuplicates /\ x.received + 1 \in 0 .. MaxReceived + 1
  BY ReceivedBounds DEF SoundExecution, Execution
<1> HIDE DEF repeats
<1>2. SoundExecution(y) /\ y.at = x.at /\ y.received = x.received + 1
  BY <1>1 DEF SoundExecution, Execution, ReportedSound
<1>3. Consumed(x, repeated) =
        CASE repeats >= MaxDuplicates -> Tripped(y, "duplicate_output")
          [] repeats < MaxDuplicates /\ y.received > MaxReceived -> Tripped(y, "output_limit")
          [] OTHER -> y
  BY DEF Consumed, repeats
<1> HIDE DEF y
<1>4. SoundExecution(Tripped(y, "duplicate_output")) /\ SoundExecution(Tripped(y, "output_limit"))
  BY <1>2, StopsSound DEF Floods
<1> QED BY <1>2, <1>3, <1>4

-----------------------------------------------------------------------------
Results == [outcome : {"none", "completed", "changes_requested", "blocked", "failed", "cancelled"},
            category : Texts \cup {"none", "timeout", "output_limit"}]

\* The record of an execution that returns.
Returned(x, r) == [x EXCEPT !.at = "returned", !.outcome = r.outcome, !.category = r.category]

LEMMA ReturnedSound ==
  ASSUME NEW x \in Execution, x.stoppedBy \in Overdue \cup Floods => x.breaker = x.stoppedBy,
         x.child # "none" => adapter \in Commands, NEW r \in Results,
         x.aborted => r.outcome \in {"cancelled", "failed"},
         x.aborted /\ adapter \in Commands => r.outcome = "cancelled",
         r.outcome = "failed" /\ adapter \in Commands /\ x.code = "other" =>
           /\ x.stoppedBy \in Floods => r.category \notin Retryable
           /\ x.stoppedBy \in Overdue => r.category \in Retryable
  PROVE  SoundExecution(Returned(x, r))
<1> DEFINE y == Returned(x, r)
<1>1. /\ y.at = "returned" /\ y.outcome = r.outcome /\ y.category = r.category
      /\ y.aborted = x.aborted /\ y.code = x.code /\ y.breaker = x.breaker
      /\ y.stoppedBy = x.stoppedBy /\ y.child = x.child
  BY DEF Execution, Returned
<1>2. y \in Execution
  <2>1. /\ r.outcome \in {"none", "completed", "changes_requested", "blocked", "failed", "cancelled"}
        /\ r.category \in Texts \cup {"none", "timeout", "output_limit"}
    BY DEF Results
  <2> DEFINE u == [x EXCEPT !.at = "returned"]
             v == [u EXCEPT !.outcome = r.outcome]
  <2>2. u \in Execution
    BY DEF Execution
  <2> HIDE DEF u
  <2>3. v \in Execution
    BY <2>1, <2>2 DEF Execution
  <2> HIDE DEF v
  <2>4. [v EXCEPT !.category = r.category] \in Execution
    BY <2>1, <2>3 DEF Execution
  <2>5. y = [v EXCEPT !.category = r.category]
    BY DEF Returned, u, v, y
  <2> QED BY <2>4, <2>5
<1> HIDE DEF y
<1>3. SoundExecution(y)
  BY <1>1, <1>2 DEF SoundExecution, ReportedSound
<1> QED BY <1>3 DEF y

\* The first reason decides the category, whatever the words say (classifyFailure).
LEMMA ClassifiedByReason ==
  ASSUME NEW x, NEW said
  PROVE  /\ Classified(x, said) \in Texts \cup {"timeout", "output_limit"}
         /\ x.breaker \in Overdue => Classified(x, said) \in Retryable
         /\ x.breaker \in Floods => Classified(x, said) \notin Retryable
BY DEF Classified, Overdue, Floods, Texts, Retryable

\* A command's answer is a result, a cancelled one for an aborted execution; a process
\* that failed is classified.
LEMMA CommandResults ==
  ASSUME NEW x \in Execution, NEW said \in Answers \cup Texts, adapter \in Commands
  PROVE  /\ CommandReports(x, said) \in Results
         /\ x.aborted => CommandReports(x, said).outcome = "cancelled"
         /\ ~x.aborted /\ x.code = "other" =>
              CommandReports(x, said) = FailedOf(Classified(x, said))
<1>1. FailedOf(Classified(x, said)) \in Results /\ FailedOf("other") \in Results
  BY ClassifiedByReason DEF FailedOf, Results, Texts
<1>2. \A o \in {"completed", "changes_requested", "blocked", "failed", "cancelled"} :
        Verdict(o) \in Results /\ Verdict(o).outcome = o
  BY DEF Verdict, Results
<1>3. Approves(said) \in {"completed", "changes_requested"}
  BY DEF Approves
<1>4. CodexReports(x, said) \in Results /\ ClaudeReports(x, said) \in Results
      /\ CustomReports(x, said) \in Results /\ AntigravityReports(x, said) \in Results
      /\ ImprovementsReported(x, said) \in Results
  BY <1>1, <1>2, <1>3 DEF CodexReports, ClaudeReports, CustomReports, AntigravityReports, ImprovementsReported
<1>5. x.code = "other" =>
        LET failed == FailedOf(Classified(x, said))
        IN /\ CodexReports(x, said) = failed /\ ClaudeReports(x, said) = failed
           /\ CustomReports(x, said) = failed /\ AntigravityReports(x, said) = failed
           /\ ImprovementsReported(x, said) = failed
  BY DEF CodexReports, ClaudeReports, CustomReports, AntigravityReports, ImprovementsReported
<1> QED BY <1>2, <1>4, <1>5 DEF CommandReports, Commands

LEMMA HealthStays ==
  ASSUME ProcessInv, NEW x, NEW r \in Results
  PROVE  HealthAfter(x, r) \in HealthValues
BY DEF ProcessInv, HealthAfter, HealthValues

\* One execution changes, and health.
LEMMA ExecutionStep ==
  ASSUME ProcessInv, NEW e \in Executions, NEW x, SoundExecution(x),
         exec' = [exec EXCEPT ![e] = x], adapter' = adapter, probing' = probing,
         health' \in HealthValues
  PROVE  ProcessInv'
<1>1. exec' \in [Executions -> Execution] /\ exec'[e] = x /\ \A d \in Executions \ {e} : exec'[d] = exec[d]
  BY DEF ProcessInv, SoundExecution
<1>2. ASSUME NEW d \in Executions PROVE SoundExecution(exec[d])'
  BY <1>1 DEF ProcessInv, SoundExecution, ReportedSound
<1> QED BY <1>1, <1>2 DEF ProcessInv

LEMMA SettlesSound ==
  ASSUME ProcessInv, NEW e \in Executions, NEW code \in {"zero", "other"}, NEW child \in {"alive", "gone"},
         exec[e].at \in {"running", "stopping"}, exec[e].child = "alive",
         NEW said \in Answers \cup Texts,
         NEW x, x = [exec[e] EXCEPT !.child = child, !.code = code], Settles(e, x, said)
  PROVE  ProcessInv'
<1>1. SoundExecution(exec[e]) /\ exec[e] \in Execution /\ adapter \in Commands
  BY DEF ProcessInv, SoundExecution
<1>2. /\ x \in Execution /\ x.code = code /\ x.child = child /\ x.breaker = exec[e].breaker
      /\ x.stoppedBy = exec[e].stoppedBy /\ x.aborted = exec[e].aborted
  BY <1>1 DEF Execution
<1> DEFINE r == CommandReports(x, said)
<1>3. /\ r \in Results /\ (x.aborted => r.outcome = "cancelled")
      /\ ~x.aborted /\ x.code = "other" => r = FailedOf(Classified(x, said))
  BY <1>1, <1>2, CommandResults
<1>4. exec' = [exec EXCEPT ![e] = Returned(x, r)] /\ health' = HealthAfter(x, r)
      /\ adapter' = adapter /\ probing' = probing
  BY DEF Settles, Returns, Returned
<1> HIDE DEF r
<1>5. r.outcome = "failed" => ~x.aborted
  BY <1>3
<1>5a. ~x.aborted /\ x.code = "other" => r.category = Classified(x, said)
  BY <1>3 DEF FailedOf
<1>6. x.stoppedBy \in Overdue \cup Floods => x.breaker = x.stoppedBy
  BY <1>1, <1>2 DEF SoundExecution
<1>7. r.outcome = "failed" /\ adapter \in Commands /\ x.code = "other" =>
        /\ x.stoppedBy \in Floods => r.category \notin Retryable
        /\ x.stoppedBy \in Overdue => r.category \in Retryable
  <2> SUFFICES ASSUME r.outcome = "failed", x.code = "other"
               PROVE  /\ x.stoppedBy \in Floods => r.category \notin Retryable
                      /\ x.stoppedBy \in Overdue => r.category \in Retryable
    OBVIOUS
  <2>1. r.category = Classified(x, said)
    BY <1>5, <1>5a
  <2>2. /\ x.breaker \in Overdue => Classified(x, said) \in Retryable
        /\ x.breaker \in Floods => Classified(x, said) \notin Retryable
    BY ClassifiedByReason
  <2> QED BY <1>6, <2>1, <2>2
<1>8. SoundExecution(Returned(x, r))
  BY <1>1, <1>2, <1>3, <1>6, <1>7, ReturnedSound
<1>9. health' \in HealthValues
  BY <1>3, <1>4, HealthStays
<1> QED BY <1>4, <1>8, <1>9, ExecutionStep

Fresh(x) ==
  /\ x.at = "idle" /\ x.breaker = "none" /\ x.stoppedBy = "none" /\ ~x.aborted
  /\ x.child = "none" /\ x.code = "none"

LEMMA NoExecutionFresh ==
  /\ \A limited \in BOOLEAN :
       LET x == [NoExecution EXCEPT !.limited = limited] IN x \in Execution /\ Fresh(x)
  /\ LET x == [NoExecution EXCEPT !.limited = TRUE, !.purpose = "improvements"]
     IN x \in Execution /\ Fresh(x)
<1>1. NoExecution \in Execution
  BY NoExecutionSound DEF SoundExecution
<1>2. Fresh(NoExecution)
  BY DEF NoExecution, Fresh
<1> QED BY <1>1, <1>2 DEF Execution, Fresh

\* An execution begins with nothing that stops it, or returns at once.
LEMMA BeginsSound ==
  ASSUME ProcessInv, NEW x \in Execution, Fresh(x)
  PROVE  /\ adapter \in Commands => SoundExecution([x EXCEPT !.at = "running", !.child = "alive"])
         /\ SoundExecution([x EXCEPT !.at = "running", !.child = "none"])
         /\ \A r \in Results : SoundExecution(Returned(x, r))
<1> USE DEF Fresh
<1>1. "none" \notin Overdue \cup Floods
  BY DEF Overdue, Floods
<1>2. ASSUME NEW child \in {"alive", "none"}, child = "alive" => adapter \in Commands
      PROVE  SoundExecution([x EXCEPT !.at = "running", !.child = child])
  <2> DEFINE y == [x EXCEPT !.at = "running", !.child = child]
  <2>1. y \in Execution /\ y.at = "running" /\ y.breaker = "none" /\ y.stoppedBy = "none" /\ ~y.aborted
        /\ y.child = child
    BY DEF Execution
  <2> HIDE DEF y
  <2>2. SoundExecution(y)
    BY <1>1, <1>2, <2>1 DEF SoundExecution, ReportedSound
  <2> QED BY <2>2 DEF y
<1>3. \A r \in Results : SoundExecution(Returned(x, r))
  BY <1>1, ReturnedSound
<1> QED BY <1>2, <1>3

LEMMA BeginsStep ==
  ASSUME ProcessInv, NEW e \in Executions,
         (\E limited \in BOOLEAN : Executes(e, limited)) \/ ReviewsImprovements(e)
  PROVE  ProcessInv'
<1>1. PICK x \in Execution :
        /\ Fresh(x) /\ adapter' = adapter /\ probing' = probing
        /\ \/ /\ exec' = [exec EXCEPT ![e] = [x EXCEPT !.at = "running",
                          !.child = IF adapter \in Commands THEN "alive" ELSE "none"]]
              /\ UNCHANGED health
           \/ \E category \in Texts \cup {"timeout"} :
                Returns(e, x, FailedOf(category)) /\ health' \in HealthValues
  <2>1. CASE \E limited \in BOOLEAN : Executes(e, limited)
    <3>1. \A r \in NotStarted : r[1] \in Texts \cup {"timeout"} /\ r[2] \in HealthValues
      BY DEF ProcessInv, NotStarted, HealthValues, Texts, Adapters, Commands
    <3> QED BY <2>1, <3>1, NoExecutionFresh DEF Executes
  <2>2. CASE ReviewsImprovements(e)
    BY <2>2, NoExecutionFresh DEF ReviewsImprovements, ProcessInv, Texts
  <2> QED BY <2>1, <2>2
<1>3. CASE /\ exec' = [exec EXCEPT ![e] = [x EXCEPT !.at = "running",
                          !.child = IF adapter \in Commands THEN "alive" ELSE "none"]]
           /\ UNCHANGED health
  <2>1. SoundExecution([x EXCEPT !.at = "running", !.child = IF adapter \in Commands THEN "alive" ELSE "none"])
    BY <1>1, BeginsSound
  <2>2. health' \in HealthValues
    BY <1>3 DEF ProcessInv
  <2> QED BY <1>1, <1>3, <2>1, <2>2, ExecutionStep
<1>4. ASSUME NEW category \in Texts \cup {"timeout"}, Returns(e, x, FailedOf(category)), health' \in HealthValues
      PROVE  ProcessInv'
  <2>1. FailedOf(category) \in Results
    BY DEF FailedOf, Results
  <2>2. exec' = [exec EXCEPT ![e] = Returned(x, FailedOf(category))]
    BY <1>4 DEF Returns, Returned
  <2>3. SoundExecution(Returned(x, FailedOf(category)))
    BY <1>1, <2>1, BeginsSound
  <2> QED BY <1>1, <1>4, <2>2, <2>3, ExecutionStep
<1> QED BY <1>1, <1>3, <1>4

LEMMA GoesOnStep ==
  ASSUME ProcessInv, NEW e \in Executions,
         OutputArrives(e) \/ FallsSilent(e) \/ TimeIsUp(e) \/ Aborts(e) \/ LeftBehindEnds(e)
  PROVE  ProcessInv'
<1>1. SoundExecution(exec[e]) /\ exec[e] \in Execution /\ health \in HealthValues
  BY DEF ProcessInv
<1>2. CASE OutputArrives(e)
  BY <1>1, <1>2, ConsumedSound, ExecutionStep DEF OutputArrives
<1>3. CASE FallsSilent(e) \/ TimeIsUp(e)
  <2>1. \E reason \in Overdue : exec' = [exec EXCEPT ![e] = Tripped(exec[e], reason)]
    BY <1>3 DEF FallsSilent, TimeIsUp, Overdue
  <2>2. \A reason \in Overdue \cup Floods : SoundExecution(Tripped(exec[e], reason))
    BY <1>1, <1>3, StopsSound DEF FallsSilent, TimeIsUp
  <2> QED BY <1>1, <1>3, <2>1, <2>2, ExecutionStep DEF FallsSilent, TimeIsUp
<1>4. CASE Aborts(e)
  BY <1>1, <1>4, AbortSound, ExecutionStep DEF Aborts
<1>5. CASE LeftBehindEnds(e)
  <2> DEFINE y == [exec[e] EXCEPT !.child = "gone"]
  <2>1. exec[e].at = "returned" /\ exec[e].child = "alive" /\ exec' = [exec EXCEPT ![e] = y]
    BY <1>5 DEF LeftBehindEnds
  <2>2. /\ y \in Execution /\ y.at = exec[e].at /\ y.breaker = exec[e].breaker
        /\ y.stoppedBy = exec[e].stoppedBy /\ y.aborted = exec[e].aborted /\ y.code = exec[e].code
        /\ y.outcome = exec[e].outcome /\ y.category = exec[e].category
    BY <1>1 DEF Execution
  <2> HIDE DEF y
  <2>3. SoundExecution(y)
    BY <1>1, <2>1, <2>2 DEF SoundExecution, ReportedSound
  <2> QED BY <1>1, <1>5, <2>1, <2>3, ExecutionStep DEF LeftBehindEnds
<1> QED BY <1>2, <1>3, <1>4, <1>5

LEMMA EndsStep ==
  ASSUME ProcessInv, NEW e \in Executions, Closes(e) \/ ForceFinish(e) \/ EndpointAnswers(e)
  PROVE  ProcessInv'
<1>1. SoundExecution(exec[e]) /\ exec[e] \in Execution /\ health \in HealthValues
  BY DEF ProcessInv
<1>2. CASE Closes(e)
  BY <1>2, SettlesSound DEF Closes
<1>3. CASE ForceFinish(e)
  <2>1. PICK said \in Answers \cup Texts : Settles(e, [exec[e] EXCEPT !.code = "other"], said)
    BY <1>3 DEF ForceFinish
  <2>2. [exec[e] EXCEPT !.code = "other"] = [exec[e] EXCEPT !.child = "alive", !.code = "other"]
    BY <1>1, <1>3 DEF ForceFinish, Execution
  <2> QED BY <1>3, <2>1, <2>2, SettlesSound DEF ForceFinish
<1>4. CASE EndpointAnswers(e)
  <2>1. PICK said \in {"completed", "nothing"} \cup Texts :
             /\ Returns(e, exec[e], EndpointReports(exec[e], said))
             /\ health' = IF exec[e].aborted \/ exec[e].breaker # "none" THEN health
                          ELSE EndpointHealthAfter(said)
    BY <1>4 DEF EndpointAnswers
  <2>2. /\ adapter = "endpoint" /\ adapter \notin Commands /\ adapter' = adapter /\ probing' = probing
    BY <1>4 DEF EndpointAnswers, Commands
  <2>3. health' \in HealthValues
    BY <1>1, <2>1 DEF EndpointHealthAfter, HealthValues
  <2> DEFINE r == EndpointReports(exec[e], said)
  <2>4. r \in Results /\ (exec[e].aborted => r.outcome \in {"cancelled", "failed"})
    BY DEF EndpointReports, FailedOf, Verdict, Results, Texts
  <2>5. exec' = [exec EXCEPT ![e] = Returned(exec[e], r)]
    BY <2>1 DEF Returns, Returned
  <2> HIDE DEF r
  <2>6. SoundExecution(Returned(exec[e], r))
    BY <1>1, <2>2, <2>4, ReturnedSound DEF SoundExecution
  <2> QED BY <2>2, <2>3, <2>5, <2>6, ExecutionStep
<1> QED BY <1>2, <1>3, <1>4

LEMMA HealthStep == ASSUME ProcessInv, HealthAsked \/ ProbeEnds \/ HealthExpires PROVE ProcessInv'
<1>1. HealthSeen \subseteq HealthValues
  BY DEF ProcessInv, HealthSeen, HealthValues, LoginHealth, AntigravityHealth, CustomHealth, EndpointHealth,
         Adapters, Commands
<1>2. adapter' = adapter /\ exec' = exec /\ health' \in HealthValues /\ probing' \in BOOLEAN
  BY <1>1 DEF ProcessInv, HealthAsked, ProbeEnds, HealthExpires, HealthValues
<1>3. \A e \in Executions : SoundExecution(exec[e])'
  BY <1>2 DEF ProcessInv, SoundExecution, ReportedSound
<1> QED BY <1>2, <1>3 DEF ProcessInv

LEMMA ProcessStep == ProcessInv /\ [ProcessNext]_processVars => ProcessInv'
<1> SUFFICES ASSUME ProcessInv, [ProcessNext]_processVars PROVE ProcessInv'
  OBVIOUS
<1>1. CASE UNCHANGED processVars
  BY <1>1 DEF processVars, ProcessInv, SoundExecution, ReportedSound
<1> QED BY <1>1, BeginsStep, GoesOnStep, EndsStep, HealthStep DEF ProcessNext, ChildActs

LEMMA ProcessInvariant == ProcessSpec => []ProcessInv
  BY ProcessInitHolds, ProcessStep, PTL DEF ProcessSpec

\* Every execution of a provider, its counters and its cached health keep their types.
THEOREM ProcessTypeCorrect == ProcessSpec => []ProcessTypeOK
<1>1. ProcessInv => ProcessTypeOK
  BY DEF ProcessInv, ProcessTypeOK, HealthValues
<1> QED BY <1>1, ProcessInvariant, PTL

\* For any number of executions and any limits, an aborted execution is never a completed
\* one, and the first reason that stopped a process decides whether its failure is
\* retried (tripBreaker, classifyFailure, runAgentProcess).
THEOREM StopIsReportedHolds == ProcessSpec => []StopIsReported
<1>1. ProcessInv => StopIsReported
  BY DEF ProcessInv, SoundExecution, ReportedSound, StopIsReported
<1> QED BY <1>1, ProcessInvariant, PTL

-----------------------------------------------------------------------------
\* Sets of natural numbers have a smallest (NaturalOrder), and when they are bounded a
\* largest one: Min and Max of the community modules choose them.

LEMMA MinIsSmallest ==
  ASSUME NEW S \in SUBSET Nat, S # {}
  PROVE  Min(S) \in S /\ \A k \in S : Min(S) <= k
BY Smallest DEF Min

LEMMA MaxIsLargest ==
  ASSUME NEW S \in SUBSET Nat, S # {}, NEW b \in Nat, \A k \in S : k <= b
  PROVE  Max(S) \in S /\ \A k \in S : k <= Max(S)
<1> DEFINE bounds == {n \in Nat : \A k \in S : k <= n}
<1>1. b \in bounds /\ bounds \in SUBSET Nat
  OBVIOUS
<1> HIDE DEF bounds
<1>2. PICK m \in bounds : \A k \in bounds : m <= k
  BY <1>1, Smallest
<1>3. m \in Nat /\ \A k \in S : k <= m
  BY <1>2 DEF bounds
<1>4. ASSUME m \notin S PROVE FALSE
  <2>1. PICK k \in S : TRUE
    OBVIOUS
  <2>2. m - 1 \in Nat /\ \A j \in S : j <= m - 1
    BY <1>3, <1>4, <2>1
  <2>3. m - 1 \in bounds
    BY <2>2 DEF bounds
  <2> QED BY <1>2, <1>3, <2>3
<1> QED BY <1>3, <1>4 DEF Max

-----------------------------------------------------------------------------
\* LifecycleNotifier.  The messages of an event are those nobody recorded and the one that
\* was; an event that was read and not told is ahead of the cursor, within the page.

Events == [kind : {"lifecycle", "other", "cursor", "sent", "failed"}, of : Nat]
CountsFit(counts) == DOMAIN counts \subseteq DOMAIN log /\ counts \in [DOMAIN counts -> Nat]

ToldIsCounted(l, t, u) ==
  \A i \in Nat : Times(t, i) = Times(u, i) + (IF HasEventForSource(l, i) THEN 1 ELSE 0)

\* Of the events of a log that were read, which nobody was told of.
Untold(l, read) == {i \in read : l[i].kind = "lifecycle" /\ ~HasEventForSource(l, i)}

\* n is what the worker does with log l, of which it read those of read.
PageIsKept(l, n, read) ==
  /\ Cursors(l) = {} => read = {} /\ n.at = "idle"
  /\ n.at = "sending" => n.id \in Untold(l, read) /\ n.page \subseteq read
  /\ \A i \in Untold(l, read) :
       /\ \A c \in Cursors(l) : c < i
       /\ i <= Max(Cursors(l)) + PageSize
       /\ n.at = "sending" => i = n.id \/ i \in n.page

Worker(l) == [at : {"idle", "sending"}, id : DOMAIN l \cup {0}, page : SUBSET DOMAIN l]

NoticeInv ==
  /\ NotifierTypeOK
  /\ ToldIsCounted(log, told, unrecorded)
  /\ PageIsKept(log, notifier, taken)

LEMMA NoticeInitHolds == NotifierInit => NoticeInv
<1> SUFFICES ASSUME NotifierInit PROVE NoticeInv
  OBVIOUS
<1> USE DEF NotifierInit, NotifierStarts
<1>1. log = <<>> /\ DOMAIN log = {} /\ taken = {} /\ told = <<>> /\ unrecorded = <<>> /\ DOMAIN told = {}
  OBVIOUS
<1>2. NotifierTypeOK
  BY <1>1, NotifierBounds DEF NotifierTypeOK, NotifierIdle
<1>3. ToldIsCounted(log, told, unrecorded)
  BY <1>1 DEF ToldIsCounted, Times, HasEventForSource
<1> QED BY <1>1, <1>2, <1>3 DEF NoticeInv, PageIsKept, NotifierIdle, Untold

\* An event is appended: what was there stays, and only a sent or a cursor changes
\* what the queries find.
LEMMA Appended ==
  ASSUME NEW l \in Seq(Events), NEW e \in Events
  PROVE  LET m == Append(l, e)
         IN /\ m \in Seq(Events) /\ DOMAIN m = DOMAIN l \cup {Len(l) + 1} /\ Len(l) + 1 \notin DOMAIN l
            /\ \A i \in DOMAIN l : m[i] = l[i]
            /\ Cursors(m) = IF e.kind = "cursor" THEN Cursors(l) \cup {Len(l) + 1} ELSE Cursors(l)
            /\ \A i : HasEventForSource(m, i) <=> HasEventForSource(l, i) \/ e = Event("sent", i)
            /\ \A i \in DOMAIN l : i < Len(l) + 1
<1> DEFINE m == Append(l, e)
<1>1. m \in Seq(Events) /\ DOMAIN m = 1 .. Len(l) + 1 /\ m[Len(l) + 1] = e /\ Len(l) \in Nat
      /\ \A i \in 1 .. Len(l) : m[i] = l[i]
  OBVIOUS
<1>2. DOMAIN l = 1 .. Len(l)
  OBVIOUS
<1> HIDE DEF m
<1>3. DOMAIN m = DOMAIN l \cup {Len(l) + 1} /\ Len(l) + 1 \notin DOMAIN l
  BY <1>1, <1>2
<1>4. Cursors(m) = IF e.kind = "cursor" THEN Cursors(l) \cup {Len(l) + 1} ELSE Cursors(l)
  BY <1>1, <1>2, <1>3 DEF Cursors
<1>5. \A i : HasEventForSource(m, i) <=> HasEventForSource(l, i) \/ e = Event("sent", i)
  BY <1>1, <1>2, <1>3 DEF HasEventForSource
<1>6. \A i \in DOMAIN l : i < Len(l) + 1
  BY <1>1, <1>2
<1> QED BY <1>1, <1>2, <1>3, <1>4, <1>5, <1>6 DEF m

\* The loop leaves nothing behind that it should tell: it stops at the first, or goes on
\* to the cursor when there is none.
LEMMA GoesThroughStep ==
  ASSUME NEW l \in Seq(Events), NEW page \in SUBSET DOMAIN l, NEW read \in SUBSET DOMAIN l,
         page \subseteq read, Cursors(l) # {}, GoesThrough(l, page),
         \A i \in Untold(l, read) :
           i \in page /\ i <= Max(Cursors(l)) + PageSize /\ \A c \in Cursors(l) : c < i
  PROVE  /\ log' \in Seq(Events) /\ DOMAIN l \subseteq DOMAIN log' /\ notifier' \in Worker(log')
         /\ \A i : HasEventForSource(log', i) <=> HasEventForSource(l, i)
         /\ PageIsKept(log', notifier', read)
<1>1. DOMAIN l \in SUBSET Nat
  OBVIOUS
<1>2. ToldOf(l, page) = Untold(l, read)
  BY DEF ToldOf, Untold
<1>3. CASE Untold(l, read) = {}
  <2>1. log' = Append(l, Event("cursor", 0)) /\ notifier' = NotifierIdle
    BY <1>2, <1>3 DEF GoesThrough
  <2>2. Event("cursor", 0) \in Events /\ Event("cursor", 0).kind = "cursor"
        /\ \A i : Event("cursor", 0) # Event("sent", i)
    BY DEF Events, Event
  <2> DEFINE e == Event("cursor", 0)
  <2> HIDE DEF e
  <2>3. /\ log' \in Seq(Events) /\ DOMAIN log' = DOMAIN l \cup {Len(l) + 1} /\ Len(l) + 1 \notin DOMAIN l
        /\ \A i \in DOMAIN l : log'[i] = l[i]
        /\ Cursors(log') = Cursors(l) \cup {Len(l) + 1}
        /\ \A i : HasEventForSource(log', i) <=> HasEventForSource(l, i)
    BY <2>1, <2>2, Appended DEF e
  <2>4. Untold(log', read) = {}
    BY <1>3, <2>3 DEF Untold
  <2> QED BY <2>1, <2>3, <2>4 DEF PageIsKept, NotifierIdle, Worker
<1>4. CASE Untold(l, read) # {}
  <2> DEFINE U == Untold(l, read)
  <2>1. U \in SUBSET DOMAIN l /\ U \subseteq page /\ U \in SUBSET Nat /\ U # {}
    BY <1>1, <1>4 DEF Untold
  <2>2. /\ log' = l
        /\ notifier' = [at |-> "sending", id |-> Min(U), page |-> {i \in page : i > Min(U)}]
    BY <1>2, <1>4 DEF GoesThrough
  <2> DEFINE n == notifier'
  <2> HIDE DEF U
  <2>3. Min(U) \in U /\ \A k \in U : Min(U) <= k
    BY <2>1, MinIsSmallest
  <2>4. n.at = "sending" /\ n.id = Min(U) /\ n.page = {i \in page : i > Min(U)} /\ n \in Worker(l)
    BY <2>1, <2>2, <2>3 DEF Worker
  <2>5. \A i \in U : i = n.id \/ i \in n.page
    BY <2>1, <2>3, <2>4
  <2>6. PageIsKept(l, n, read)
    BY <2>1, <2>3, <2>4, <2>5 DEF PageIsKept, U
  <2> QED BY <2>2, <2>4, <2>6
<1> QED BY <1>3, <1>4

-----------------------------------------------------------------------------
\* One lemma for each action.

LEMMA InitializesKeepsNotices == NoticeInv /\ Initializes => NoticeInv'
<1> SUFFICES ASSUME NoticeInv, Initializes PROVE NoticeInv'
  OBVIOUS
<1> DEFINE e == Event("cursor", 0)
<1>1. e \in Events /\ e.kind = "cursor" /\ \A i : e # Event("sent", i)
  BY DEF Events, Event
<1>2. log \in Seq(Events) /\ log' = Append(log, e) /\ Cursors(log) = {} /\ notifier.at = "idle"
  BY DEF Initializes, NoticeInv, NotifierTypeOK, Events
<1>3. taken = {}
  BY <1>2 DEF NoticeInv, PageIsKept
<1> HIDE DEF e
<1>4. /\ log' \in Seq(Events) /\ DOMAIN log' = DOMAIN log \cup {Len(log) + 1}
      /\ \A i : HasEventForSource(log', i) <=> HasEventForSource(log, i)
      /\ Cursors(log') = {Len(log) + 1}
  BY <1>1, <1>2, Appended
<1>5. UNCHANGED <<notifier, taken, told, unrecorded, faults>>
  BY DEF Initializes
<1>6. NotifierTypeOK'
  BY <1>4, <1>5 DEF NoticeInv, NotifierTypeOK, Events
<1>7. ToldIsCounted(log, told, unrecorded)'
  BY <1>4, <1>5 DEF NoticeInv, ToldIsCounted
<1>8. PageIsKept(log', notifier', taken')
  BY <1>2, <1>3, <1>4, <1>5 DEF PageIsKept, Untold
<1> QED BY <1>6, <1>7, <1>8 DEF NoticeInv

LEMMA ReadsKeepsNotices == NoticeInv /\ Reads => NoticeInv'
<1> SUFFICES ASSUME NoticeInv, Reads PROVE NoticeInv'
  OBVIOUS
<1> DEFINE cursor == Max(Cursors(log))
           page == ListEventsAfter(cursor)
           read == taken \cup page
<1>1. log \in Seq(Events) /\ DOMAIN log = 1 .. Len(log) /\ Len(log) \in Nat /\ taken \in SUBSET DOMAIN log
  BY DEF NoticeInv, NotifierTypeOK, Events
<1>2. Cursors(log) # {} /\ GoesThrough(log, page) /\ taken' = read /\ UNCHANGED <<told, unrecorded, faults>>
  BY DEF Reads
<1>3. cursor \in Cursors(log) /\ \A c \in Cursors(log) : c <= cursor
  <2>1. Cursors(log) \in SUBSET Nat /\ \A c \in Cursors(log) : c <= Len(log)
    BY <1>1 DEF Cursors
  <2> QED BY <1>1, <1>2, <2>1, MaxIsLargest
<1>4. cursor \in Nat /\ Cursors(log) \in SUBSET Nat /\ PageSize \in Nat
  BY <1>1, <1>3, NotifierBounds DEF Cursors
<1> HIDE DEF cursor
<1>5. page = {k \in DOMAIN log : cursor < k /\ k <= cursor + PageSize}
  BY DEF ListEventsAfter
<1> HIDE DEF page
<1>6. page \in SUBSET DOMAIN log /\ read \in SUBSET DOMAIN log /\ page \subseteq read
  BY <1>1, <1>5
<1>7. ASSUME NEW i \in Untold(log, read)
      PROVE  i \in page /\ i <= cursor + PageSize /\ \A c \in Cursors(log) : c < i
  <2>1. i \in taken => i \in Untold(log, taken)
    BY <1>7 DEF Untold
  <2>2. i \in taken => cursor < i /\ i <= cursor + PageSize
    BY <2>1, <1>3 DEF NoticeInv, PageIsKept, cursor
  <2>3. i \in DOMAIN log /\ (i \in taken \/ i \in page)
    BY <1>6, <1>7 DEF Untold
  <2>4. cursor < i /\ i <= cursor + PageSize /\ i \in page
    BY <2>2, <2>3, <1>5
  <2> QED BY <2>3, <2>4, <1>1, <1>3, <1>4
<1>8. \A i \in Untold(log, read) :
        i \in page /\ i <= Max(Cursors(log)) + PageSize /\ \A c \in Cursors(log) : c < i
  BY <1>7 DEF cursor
<1> HIDE DEF read
<1>9. /\ log' \in Seq(Events) /\ DOMAIN log \subseteq DOMAIN log' /\ notifier' \in Worker(log')
      /\ \A i : HasEventForSource(log', i) <=> HasEventForSource(log, i)
      /\ PageIsKept(log', notifier', read)
  BY <1>1, <1>2, <1>6, <1>8, GoesThroughStep
<1>10. NotifierTypeOK'
  BY <1>2, <1>6, <1>9 DEF NoticeInv, NotifierTypeOK, Events, Worker
<1>11. ToldIsCounted(log, told, unrecorded)'
  BY <1>2, <1>9 DEF NoticeInv, ToldIsCounted
<1> QED BY <1>2, <1>9, <1>10, <1>11 DEF NoticeInv

LEMMA OnceMoreCounts ==
  ASSUME NEW counts, CountsFit(counts), NEW i \in DOMAIN log
  PROVE  /\ CountsFit(OnceMore(counts, i))
         /\ \A k : Times(counts, k) \in Nat
         /\ \A k : Times(OnceMore(counts, i), k) = Times(counts, k) + (IF k = i THEN 1 ELSE 0)
<1>1. \A k : Times(counts, k) \in Nat
  BY DEF CountsFit, Times
<1>2. /\ DOMAIN OnceMore(counts, i) = DOMAIN counts \cup {i}
      /\ \A k \in DOMAIN counts \cup {i} :
           OnceMore(counts, i)[k] = IF k = i THEN Times(counts, i) + 1 ELSE counts[k]
      /\ OnceMore(counts, i) = [k \in DOMAIN OnceMore(counts, i) |-> OnceMore(counts, i)[k]]
  BY DEF OnceMore
<1>3. \A k \in DOMAIN OnceMore(counts, i) : OnceMore(counts, i)[k] \in Nat
  BY <1>1, <1>2 DEF CountsFit
<1>4. CountsFit(OnceMore(counts, i))
  BY <1>2, <1>3 DEF CountsFit
<1>5. ASSUME NEW k
      PROVE  Times(OnceMore(counts, i), k) = Times(counts, k) + (IF k = i THEN 1 ELSE 0)
  BY <1>1, <1>2 DEF Times
<1> QED BY <1>1, <1>4, <1>5

LEMMA SendsKeepsNotices == NoticeInv /\ Sends => NoticeInv'
<1> SUFFICES ASSUME NoticeInv, Sends PROVE NoticeInv'
  OBVIOUS
<1> DEFINE id == notifier.id
           e == Event("sent", id)
           l == Append(log, e)
           page == notifier.page
<1>1. /\ log \in Seq(Events) /\ DOMAIN log = 1 .. Len(log) /\ Len(log) \in Nat
      /\ taken \in SUBSET DOMAIN log /\ page \in SUBSET DOMAIN log /\ page \subseteq taken
      /\ CountsFit(told) /\ CountsFit(unrecorded) /\ faults \in 0 .. MaxNotifierFaults
  BY DEF NoticeInv, NotifierTypeOK, Events, CountsFit, PageIsKept, Sends
<1>2. /\ GoesThrough(l, page) /\ told' = OnceMore(told, id)
      /\ UNCHANGED <<taken, unrecorded, faults>> /\ notifier.at = "sending"
  BY DEF Sends, Tells
<1>3. /\ id \in Untold(log, taken) /\ Cursors(log) # {}
      /\ \A i \in Untold(log, taken) :
           (\A c \in Cursors(log) : c < i) /\ i <= Max(Cursors(log)) + PageSize /\ (i = id \/ i \in page)
  BY <1>2 DEF NoticeInv, PageIsKept
<1>4. id \in DOMAIN log /\ ~HasEventForSource(log, id) /\ id \in Nat
  BY <1>1, <1>3 DEF Untold
<1>5. e \in Events /\ e.kind # "cursor" /\ \A i : e = Event("sent", i) <=> i = id
  BY <1>4 DEF Events, Event
<1> HIDE DEF e, id, page
<1>6. /\ l \in Seq(Events) /\ DOMAIN log \subseteq DOMAIN l
      /\ \A i \in DOMAIN log : l[i] = log[i]
      /\ Cursors(l) = Cursors(log)
      /\ \A i : HasEventForSource(l, i) <=> HasEventForSource(log, i) \/ i = id
  BY <1>1, <1>5, Appended
<1> HIDE DEF l
<1>7. \A i \in Untold(l, taken) : i \in Untold(log, taken) /\ i # id
  BY <1>1, <1>6 DEF Untold
<1>8. \A i \in Untold(l, taken) :
        i \in page /\ i <= Max(Cursors(l)) + PageSize /\ \A c \in Cursors(l) : c < i
  BY <1>3, <1>6, <1>7
<1>9. page \in SUBSET DOMAIN l /\ taken \in SUBSET DOMAIN l /\ page \subseteq taken /\ Cursors(l) # {}
  BY <1>1, <1>3, <1>6
<1>10. /\ log' \in Seq(Events) /\ DOMAIN l \subseteq DOMAIN log' /\ notifier' \in Worker(log')
       /\ \A i : HasEventForSource(log', i) <=> HasEventForSource(l, i)
       /\ PageIsKept(log', notifier', taken)
  BY <1>2, <1>6, <1>8, <1>9, GoesThroughStep
<1>11. /\ CountsFit(told') /\ \A k : Times(told, k) \in Nat
       /\ \A k : Times(told', k) = Times(told, k) + (IF k = id THEN 1 ELSE 0)
  BY <1>1, <1>2, <1>4, OnceMoreCounts
<1>12. NotifierTypeOK'
  BY <1>1, <1>2, <1>6, <1>9, <1>10, <1>11 DEF NotifierTypeOK, Events, Worker, CountsFit
<1>13. ToldIsCounted(log, told, unrecorded)'
  <2>1. ASSUME NEW i \in Nat
        PROVE  Times(told, i)' = Times(unrecorded, i)' + (IF HasEventForSource(log, i)' THEN 1 ELSE 0)
    <3>1. Times(told, i) = Times(unrecorded, i) + (IF HasEventForSource(log, i) THEN 1 ELSE 0)
      BY DEF NoticeInv, ToldIsCounted
    <3>2. HasEventForSource(log', i) <=> HasEventForSource(log, i) \/ i = id
      BY <1>6, <1>10
    <3>3. Times(unrecorded, i)' = Times(unrecorded, i) /\ Times(unrecorded, i) \in Nat
      BY <1>1, <1>2 DEF CountsFit, Times
    <3> QED BY <1>4, <1>11, <3>1, <3>2, <3>3
  <2> QED BY <2>1 DEF ToldIsCounted
<1> QED BY <1>2, <1>10, <1>12, <1>13 DEF NoticeInv

\* What is appended without a cursor and without a message leaves the pages as they were.
LEMMA PageIsKeptBy ==
  ASSUME NEW l \in Seq(Events), NEW m \in Seq(Events), NEW n, NEW read \in SUBSET DOMAIN l,
         PageIsKept(l, n, read), Cursors(m) = Cursors(l), DOMAIN l \subseteq DOMAIN m,
         \A i \in DOMAIN l : m[i] = l[i],
         \A i : HasEventForSource(m, i) <=> HasEventForSource(l, i)
  PROVE  PageIsKept(m, n, read) /\ PageIsKept(m, NotifierIdle, read)
<1>1. Untold(m, read) = Untold(l, read)
  BY DEF Untold
<1> QED BY <1>1 DEF PageIsKept, NotifierIdle

LEMMA SilentAppend ==
  ASSUME NEW kind \in {"lifecycle", "other", "failed"}, NEW i \in Nat, log \in Seq(Events)
  PROVE  LET m == Append(log, Event(kind, i))
         IN /\ m \in Seq(Events) /\ DOMAIN log \subseteq DOMAIN m /\ Cursors(m) = Cursors(log)
            /\ \A k \in DOMAIN log : m[k] = log[k]
            /\ \A k : HasEventForSource(m, k) <=> HasEventForSource(log, k)
<1> DEFINE e == Event(kind, i)
<1>1. e \in Events /\ e.kind # "cursor" /\ \A k : e # Event("sent", k)
  BY DEF Events, Event
<1> HIDE DEF e
<1>2. LET m == Append(log, e)
      IN /\ m \in Seq(Events) /\ DOMAIN log \subseteq DOMAIN m /\ Cursors(m) = Cursors(log)
         /\ \A k \in DOMAIN log : m[k] = log[k]
         /\ \A k : HasEventForSource(m, k) <=> HasEventForSource(log, k)
  BY <1>1, Appended
<1> QED BY <1>2 DEF e

\* The steps that neither read nor send leave the page, or leave it where it is.
LEMMA QuietStep ==
  ASSUME NoticeInv, NEW kind \in {"lifecycle", "other", "failed"}, NEW i \in Nat,
         log' \in {log, Append(log, Event(kind, i))}, notifier' \in {notifier, NotifierIdle},
         taken' = taken
  PROVE  /\ log' \in Seq(Events) /\ DOMAIN log \subseteq DOMAIN log' /\ notifier' \in Worker(log')
         /\ taken' \in SUBSET DOMAIN log'
         /\ \A k : HasEventForSource(log', k) <=> HasEventForSource(log, k)
         /\ PageIsKept(log', notifier', taken')
<1>1. log \in Seq(Events) /\ taken \in SUBSET DOMAIN log /\ notifier \in Worker(log)
      /\ PageIsKept(log, notifier, taken)
  BY DEF NoticeInv, NotifierTypeOK, Events, Worker
<1>2. /\ log' \in Seq(Events) /\ DOMAIN log \subseteq DOMAIN log' /\ Cursors(log') = Cursors(log)
      /\ \A k \in DOMAIN log : log'[k] = log[k]
      /\ \A k : HasEventForSource(log', k) <=> HasEventForSource(log, k)
  <2>1. CASE log' = log
    BY <1>1, <2>1
  <2>2. CASE log' = Append(log, Event(kind, i))
    BY <1>1, <2>2, SilentAppend
  <2> QED BY <2>1, <2>2
<1>3. PageIsKept(log', notifier, taken) /\ PageIsKept(log', NotifierIdle, taken)
  BY <1>1, <1>2, PageIsKeptBy
<1>4. notifier' \in Worker(log')
  BY <1>1, <1>2 DEF Worker, NotifierIdle
<1> QED BY <1>1, <1>2, <1>3, <1>4

LEMMA SendFailsKeepsNotices == NoticeInv /\ (SendFails \/ NotifierDies) => NoticeInv'
<1> SUFFICES ASSUME NoticeInv, SendFails \/ NotifierDies PROVE NoticeInv'
  OBVIOUS
<1>1. /\ notifier.id \in Nat
      /\ faults \in 0 .. MaxNotifierFaults /\ CountsFit(told) /\ CountsFit(unrecorded)
  BY DEF NoticeInv, NotifierTypeOK, CountsFit
<1>2. /\ log' \in {log, Append(log, Event("failed", notifier.id))} /\ notifier' = NotifierIdle
      /\ faults < MaxNotifierFaults /\ faults' = faults + 1 /\ UNCHANGED <<taken, told, unrecorded>>
  BY DEF SendFails, NotifierDies, NotifierFault
<1>3. /\ log' \in Seq(Events) /\ DOMAIN log \subseteq DOMAIN log' /\ notifier' \in Worker(log')
      /\ taken' \in SUBSET DOMAIN log'
      /\ \A k : HasEventForSource(log', k) <=> HasEventForSource(log, k)
      /\ PageIsKept(log', notifier', taken')
  BY <1>1, <1>2, QuietStep
<1>4. faults' \in 0 .. MaxNotifierFaults
  BY <1>1, <1>2, NotifierBounds
<1>5. NotifierTypeOK'
  BY <1>1, <1>2, <1>3, <1>4 DEF NotifierTypeOK, Events, Worker, CountsFit
<1>6. ToldIsCounted(log, told, unrecorded)'
  BY <1>2, <1>3 DEF NoticeInv, ToldIsCounted
<1> QED BY <1>3, <1>5, <1>6 DEF NoticeInv

LEMMA SendUnrecordedKeepsNotices == NoticeInv /\ SendUnrecorded => NoticeInv'
<1> SUFFICES ASSUME NoticeInv, SendUnrecorded PROVE NoticeInv'
  OBVIOUS
<1> DEFINE id == notifier.id
<1>1. /\ id \in Nat /\ taken \in SUBSET DOMAIN log
      /\ faults \in 0 .. MaxNotifierFaults /\ CountsFit(told) /\ CountsFit(unrecorded)
  BY DEF NoticeInv, NotifierTypeOK, CountsFit
<1>2. /\ log' \in {log, Append(log, Event("failed", id))} /\ notifier' = NotifierIdle
      /\ faults < MaxNotifierFaults /\ faults' = faults + 1 /\ taken' = taken
      /\ told' = OnceMore(told, id) /\ unrecorded' = OnceMore(unrecorded, id)
  BY DEF SendUnrecorded, NotifierFault, Tells
<1>3. id \in DOMAIN log
  BY DEF NoticeInv, PageIsKept, SendUnrecorded, Untold, NotifierTypeOK
<1>4. /\ log' \in Seq(Events) /\ DOMAIN log \subseteq DOMAIN log' /\ notifier' \in Worker(log')
      /\ taken' \in SUBSET DOMAIN log'
      /\ \A k : HasEventForSource(log', k) <=> HasEventForSource(log, k)
      /\ PageIsKept(log', notifier', taken')
  BY <1>1, <1>2, QuietStep
<1>5. /\ CountsFit(told') /\ CountsFit(unrecorded')
      /\ \A k : Times(told, k) \in Nat /\ Times(unrecorded, k) \in Nat
      /\ \A k : /\ Times(told', k) = Times(told, k) + (IF k = id THEN 1 ELSE 0)
               /\ Times(unrecorded', k) = Times(unrecorded, k) + (IF k = id THEN 1 ELSE 0)
  BY <1>1, <1>2, <1>3, OnceMoreCounts
<1>6. faults' \in 0 .. MaxNotifierFaults
  BY <1>1, <1>2, NotifierBounds
<1>7. NotifierTypeOK'
  BY <1>4, <1>5, <1>6 DEF NotifierTypeOK, Events, Worker, CountsFit
<1>8. ToldIsCounted(log, told, unrecorded)'
  <2>1. ASSUME NEW i \in Nat
        PROVE  Times(told, i)' = Times(unrecorded, i)' + (IF HasEventForSource(log, i)' THEN 1 ELSE 0)
    <3>1. Times(told, i) = Times(unrecorded, i) + (IF HasEventForSource(log, i) THEN 1 ELSE 0)
      BY DEF NoticeInv, ToldIsCounted
    <3> QED BY <1>4, <1>5, <3>1
  <2> QED BY <2>1 DEF ToldIsCounted
<1> QED BY <1>4, <1>7, <1>8 DEF NoticeInv

LEMMA RecordsKeepsNotices ==
  ASSUME NoticeInv, NEW kind \in {"lifecycle", "other"}, Records(kind)
  PROVE  NoticeInv'
<1>1. /\ log' = Append(log, Event(kind, 0)) /\ UNCHANGED <<notifier, taken, told, unrecorded, faults>>
      /\ faults \in 0 .. MaxNotifierFaults /\ CountsFit(told) /\ CountsFit(unrecorded)
  BY DEF Records, NoticeInv, NotifierTypeOK, CountsFit
<1>2. /\ log' \in Seq(Events) /\ DOMAIN log \subseteq DOMAIN log' /\ notifier' \in Worker(log')
      /\ taken' \in SUBSET DOMAIN log'
      /\ \A k : HasEventForSource(log', k) <=> HasEventForSource(log, k)
      /\ PageIsKept(log', notifier', taken')
  BY <1>1, QuietStep
<1>3. NotifierTypeOK'
  BY <1>1, <1>2 DEF NotifierTypeOK, Events, Worker, CountsFit
<1>4. ToldIsCounted(log, told, unrecorded)'
  BY <1>1, <1>2 DEF NoticeInv, ToldIsCounted
<1> QED BY <1>2, <1>3, <1>4 DEF NoticeInv

LEMMA NoticeStep == NoticeInv /\ [NotifierNext]_notifierVars => NoticeInv'
<1> SUFFICES ASSUME NoticeInv, [NotifierNext]_notifierVars PROVE NoticeInv'
  OBVIOUS
<1>1. CASE UNCHANGED notifierVars
  BY <1>1 DEF notifierVars, NoticeInv, NotifierTypeOK, ToldIsCounted, PageIsKept, Times,
              HasEventForSource, Untold, Cursors
<1>2. CASE \E kind \in {"lifecycle", "other"} : Records(kind)
  BY <1>2, RecordsKeepsNotices
<1> QED BY <1>1, <1>2, InitializesKeepsNotices, ReadsKeepsNotices, SendsKeepsNotices,
           SendFailsKeepsNotices, SendUnrecordedKeepsNotices DEF NotifierNext

LEMMA NoticeInvariant == NotifierSpec => []NoticeInv
<1> QED BY NoticeInitHolds, NoticeStep, PTL DEF NotifierSpec

\* The variables of the notifier keep their types: every count is of an event of the table.
THEOREM NoticeTypeCorrect == NotifierSpec => []NotifierTypeOK
<1>1. NoticeInv => NotifierTypeOK
  BY DEF NoticeInv
<1> QED BY <1>1, NoticeInvariant, PTL

\* However often messages fail, the program dies and pages are read again, with a table of
\* any length: the cursor passes no event of a Feature Plan that was read and not told, and
\* nobody is told more often than once and once more for every message nobody recorded
\* (reconcile, deliverEvent, hasEventForSource of the notification worker).
THEOREM NoticesAreKeptHolds == NotifierSpec => []NoticesAreKept
<1>1. NoticeInv => NoticesAreKept
  <2> SUFFICES ASSUME NoticeInv, NEW i \in DOMAIN log
               PROVE  /\ Times(told, i) <= 1 + Times(unrecorded, i)
                      /\ i \in taken /\ log[i].kind = "lifecycle" /\ (\E c \in Cursors(log) : i < c)
                         => HasEventForSource(log, i)
    BY DEF NoticesAreKept
  <2>1. DOMAIN log \in SUBSET Nat /\ CountsFit(unrecorded) /\ Cursors(log) \in SUBSET Nat
    BY DEF NoticeInv, NotifierTypeOK, CountsFit, Cursors
  <2>2. Times(unrecorded, i) \in Nat
    BY <2>1 DEF CountsFit, Times
  <2>3. Times(told, i) = Times(unrecorded, i) + (IF HasEventForSource(log, i) THEN 1 ELSE 0)
    BY <2>1 DEF NoticeInv, ToldIsCounted
  <2>4. ASSUME i \in taken, log[i].kind = "lifecycle", \E c \in Cursors(log) : i < c,
               ~HasEventForSource(log, i)
        PROVE  FALSE
    <3>1. i \in Untold(log, taken)
      BY <2>4 DEF Untold
    <3>2. \A c \in Cursors(log) : c < i
      BY <3>1 DEF NoticeInv, PageIsKept
    <3> QED BY <2>1, <2>4, <3>2
  <2> QED BY <2>2, <2>3, <2>4
<1> QED BY <1>1, NoticeInvariant, PTL

-----------------------------------------------------------------------------
\* WorkIntake.  A request has one Task for its record or the submission under way, and
\* one for each submission that was torn.

IntakeTask == [of : Intakes \cup {NoIntake}, approved : BOOLEAN]
SubmitRow == [at : {"none", "decided", "tasked", "planning", "planned"},
              of : Intakes \cup {NoIntake}, class : Classes, approved : BOOLEAN, task : Nat]
IntakeTyped ==
  /\ intakeTasks \in Seq(IntakeTask) /\ decisions \in [Intakes -> Classes \cup {"none"}]
  /\ submissions \in [Intakes -> [task : Nat, planned : BOOLEAN]]
  /\ operations \in [Intakes -> Nat] /\ submit \in SubmitRow
  /\ torn \in [Intakes -> Nat] /\ granted \in SUBSET Intakes

TasksOf(ts, i) == {k \in 1 .. Len(ts) : ts[k].of = i}
HasTask(sb) == sb.at \in {"tasked", "planning", "planned"}
UnderWay(sb, i) == sb.of = i /\ HasTask(sb)

Counted(ts, i) ==
  Cardinality(TasksOf(ts, i)) <= torn[i] + (IF Exists(i) \/ UnderWay(submit, i) THEN 1 ELSE 0)

\* A record, or the submission under way, names a Task of the request, with its
\* approval and its plan.
RecordSound(i) ==
  LET s == submissions[i] IN
  /\ Exists(i) => /\ s.task \in 1 .. Len(intakeTasks) /\ intakeTasks[s.task].of = i
                  /\ s.planned => operations[i] = s.task
                  /\ i \in granted => intakeTasks[s.task].approved
  /\ i \in granted => Exists(i)
SubmitSound ==
  /\ HasTask(submit) => /\ submit.task \in 1 .. Len(intakeTasks)
                        /\ intakeTasks[submit.task].of = submit.of
  /\ submit.at \in {"planning", "planned"} =>
       /\ submit.of # NoIntake
       /\ submit.approved => intakeTasks[submit.task].approved
  /\ submit.at = "planned" /\ submit.class = "feature_plan" => operations[submit.of] = submit.task
  /\ submit.at # "none" /\ submit.of # NoIntake => ~Exists(submit.of)

IntakeInv ==
  /\ IntakeTyped /\ SubmitSound
  /\ \A i \in Intakes : RecordSound(i) /\ Counted(intakeTasks, i)

LEMMA TaskAppended ==
  ASSUME NEW ts \in Seq(IntakeTask), NEW t \in IntakeTask
  PROVE  /\ Append(ts, t) \in Seq(IntakeTask) /\ Len(Append(ts, t)) = Len(ts) + 1
         /\ \A k \in 1 .. Len(ts) : Append(ts, t)[k] = ts[k]
         /\ Append(ts, t)[Len(ts) + 1] = t
         /\ \A i : IsFiniteSet(TasksOf(ts, i)) /\ Cardinality(TasksOf(ts, i)) \in Nat
         /\ \A i : Cardinality(TasksOf(Append(ts, t), i))
                     = Cardinality(TasksOf(ts, i)) + (IF t.of = i THEN 1 ELSE 0)
<1> DEFINE us == Append(ts, t)
<1>1. /\ us \in Seq(IntakeTask) /\ Len(us) = Len(ts) + 1 /\ Len(ts) \in Nat
      /\ \A k \in 1 .. Len(ts) : us[k] = ts[k]
      /\ us[Len(ts) + 1] = t
  OBVIOUS
<1>2. ASSUME NEW i PROVE IsFiniteSet(TasksOf(ts, i)) /\ Cardinality(TasksOf(ts, i)) \in Nat
  <2>1. IsFiniteSet(1 .. Len(ts))
    BY <1>1, FS_Interval
  <2>2. IsFiniteSet(TasksOf(ts, i))
    BY <2>1, FS_Subset DEF TasksOf
  <2> QED BY <2>2, FS_CardinalityType
<1> HIDE DEF us
<1>3. ASSUME NEW i PROVE Cardinality(TasksOf(us, i)) = Cardinality(TasksOf(ts, i)) + (IF t.of = i THEN 1 ELSE 0)
  <2>1. CASE t.of = i
    <3>1. TasksOf(us, i) = TasksOf(ts, i) \cup {Len(ts) + 1} /\ Len(ts) + 1 \notin TasksOf(ts, i)
      BY <1>1, <2>1 DEF TasksOf
    <3> QED BY <1>2, <2>1, <3>1, FS_AddElement
  <2>2. CASE t.of # i
    <3>1. TasksOf(us, i) = TasksOf(ts, i)
      BY <1>1, <2>2 DEF TasksOf
    <3> QED BY <1>2, <2>2, <3>1
  <2> QED BY <2>1, <2>2
<1> QED BY <1>1, <1>2, <1>3 DEF us

\* An approval changes nothing else of the Tasks.
LEMMA TaskApproved ==
  ASSUME NEW ts \in Seq(IntakeTask), NEW n \in 1 .. Len(ts)
  PROVE  LET us == [ts EXCEPT ![n].approved = TRUE] IN
         /\ us \in Seq(IntakeTask) /\ Len(us) = Len(ts) /\ us[n].approved
         /\ \A k \in 1 .. Len(ts) : us[k].of = ts[k].of /\ (ts[k].approved => us[k].approved)
         /\ \A i : TasksOf(us, i) = TasksOf(ts, i)
<1> DEFINE row == [ts[n] EXCEPT !.approved = TRUE]
           us == [ts EXCEPT ![n] = row]
<1>1. ts[n] \in IntakeTask
  OBVIOUS
<1>2. row \in IntakeTask /\ row.of = ts[n].of /\ row.approved
  BY <1>1 DEF IntakeTask
<1> HIDE DEF row
<1>3. /\ us \in Seq(IntakeTask) /\ Len(us) = Len(ts)
      /\ \A k \in 1 .. Len(ts) : us[k] = IF k = n THEN row ELSE ts[k]
  BY <1>2
<1>4. [ts EXCEPT ![n].approved = TRUE] = us
  BY DEF row
<1> HIDE DEF us
<1>5. \A k \in 1 .. Len(ts) : us[k].of = ts[k].of /\ (ts[k].approved => us[k].approved)
  BY <1>2, <1>3
<1>6. \A i : TasksOf(us, i) = TasksOf(ts, i)
  BY <1>3, <1>5 DEF TasksOf
<1> QED BY <1>2, <1>3, <1>4, <1>5, <1>6

\* Tasks may have got an approval.
ApprovesOnly(ts, us) ==
  /\ us \in Seq(IntakeTask) /\ Len(us) = Len(ts)
  /\ \A k \in 1 .. Len(ts) : us[k].of = ts[k].of /\ (ts[k].approved => us[k].approved)
  /\ \A i : TasksOf(us, i) = TasksOf(ts, i)

LEMMA ApprovalRecorded ==
  ASSUME intakeTasks \in Seq(IntakeTask), NEW n \in 1 .. Len(intakeTasks), NEW granting \in BOOLEAN,
         IF granting THEN RecordsApproval(n) ELSE UNCHANGED intakeTasks
  PROVE  ApprovesOnly(intakeTasks, intakeTasks') /\ (granting => intakeTasks'[n].approved)
<1>1. CASE granting
  <2>1. intakeTasks' = [intakeTasks EXCEPT ![n].approved = TRUE]
    BY <1>1 DEF RecordsApproval
  <2> QED BY <2>1, TaskApproved DEF ApprovesOnly
<1>2. CASE ~granting
  BY <1>2 DEF ApprovesOnly
<1> QED BY <1>1, <1>2

LEMMA NoSubmitRow == NoSubmit \in SubmitRow /\ NoSubmit.at = "none" /\ NoSubmit.of = NoIntake
BY DEF NoSubmit, SubmitRow, Classes

LEMMA InputClassified ==
  ASSUME NEW input \in Inputs
  PROVE  Classify(input) \in Classes
BY DEF Inputs, Classify, Classes

\* Nothing is under way, or now begins, and the tables are as they were.
LEMMA SubmissionBegins ==
  ASSUME IntakeInv, MaySubmit, UNCHANGED <<intakeTasks, submissions, operations, torn, granted>>,
         decisions' \in [Intakes -> Classes \cup {"none"}],
         \/ UNCHANGED submit
         \/ /\ submit' \in SubmitRow /\ submit'.at = "decided"
            /\ submit'.of # NoIntake => submit'.of \in Intakes /\ ~Exists(submit'.of)
  PROVE  IntakeInv'
<1>1. submit.at = "none" /\ submit \in SubmitRow
  BY DEF MaySubmit, IntakeInv, IntakeTyped
<1>2. submit' \in SubmitRow /\ submit'.at \in {"none", "decided"}
  BY <1>1
<1>3. IntakeTyped'
  BY <1>2 DEF IntakeInv, IntakeTyped
<1>4. SubmitSound'
  BY <1>1, <1>2 DEF SubmitSound, HasTask, Exists
<1>5. ASSUME NEW i \in Intakes PROVE RecordSound(i)' /\ Counted(intakeTasks, i)'
  <2>1. ~UnderWay(submit, i) /\ ~UnderWay(submit', i)
    BY <1>1, <1>2 DEF UnderWay, HasTask
  <2>2. RecordSound(i) /\ Counted(intakeTasks, i)
    BY DEF IntakeInv
  <2>3. Exists(i)' = Exists(i) /\ torn' = torn
    BY DEF Exists
  <2>4. Counted(intakeTasks, i)'
    BY <2>1, <2>2, <2>3 DEF Counted
  <2> QED BY <2>2, <2>4 DEF RecordSound, Exists
<1> QED BY <1>3, <1>4, <1>5 DEF IntakeInv

LEMMA IntakeSubmits ==
  ASSUME IntakeInv, NEW i \in Intakes, NEW input \in Inputs, NEW approved \in BOOLEAN,
         Submits(i, input, approved) \/ Previews(i, input)
  PROVE  IntakeInv'
<1>1. Classify(input) \in Classes /\ 0 \in Nat
  BY InputClassified
<1>2. decisions \in [Intakes -> Classes \cup {"none"}]
  BY DEF IntakeInv, IntakeTyped
<1>3. CASE Submits(i, input, approved)
  <2>1. decisions' \in [Intakes -> Classes \cup {"none"}]
    BY <1>1, <1>2, <1>3 DEF Submits
  <2> DEFINE row == [at |-> "decided", of |-> i, class |-> Classify(input), approved |-> approved, task |-> 0]
  <2>2. row \in SubmitRow /\ row.at = "decided" /\ row.of = i
    BY <1>1 DEF SubmitRow
  <2>3. ~Exists(i) /\ (UNCHANGED submit \/ submit' = row)
    BY <1>3 DEF Submits
  <2> HIDE DEF row
  <2> QED BY <1>3, <2>1, <2>2, <2>3, SubmissionBegins DEF Submits
<1>4. CASE Previews(i, input)
  <2>1. decisions' \in [Intakes -> Classes \cup {"none"}]
    BY <1>1, <1>2, <1>4 DEF Previews
  <2> QED BY <1>4, <2>1, SubmissionBegins DEF Previews
<1> QED BY <1>3, <1>4

LEMMA DirectTaskBegins ==
  ASSUME IntakeInv, NEW approved \in BOOLEAN, CreatesDirectly(approved)
  PROVE  IntakeInv'
<1> DEFINE row == [NoSubmit EXCEPT !.at = "decided", !.approved = approved]
<1>1. row \in SubmitRow /\ row.at = "decided" /\ row.of = NoIntake
  BY NoSubmitRow DEF SubmitRow, NoSubmit
<1>2. submit' = row
  BY DEF CreatesDirectly
<1> HIDE DEF row
<1>3. decisions \in [Intakes -> Classes \cup {"none"}]
  BY DEF IntakeInv, IntakeTyped
<1> QED BY <1>1, <1>2, <1>3, SubmissionBegins DEF CreatesDirectly

LEMMA IntakeSubmitsAgain ==
  ASSUME IntakeInv, NEW i \in Intakes, NEW approved \in BOOLEAN, SubmitsAgain(i, approved)
  PROVE  IntakeInv'
<1> DEFINE n == submissions[i].task
<1>1. /\ submit.at = "none" /\ Exists(i) /\ RecordSound(i) /\ n \in 1 .. Len(intakeTasks)
      /\ IF approved THEN RecordsApproval(n) ELSE UNCHANGED intakeTasks
      /\ Grants(i, approved)
      /\ UNCHANGED <<decisions, submissions, operations, submit, torn>>
  BY DEF SubmitsAgain, MaySubmit, IntakeInv, RecordSound
<1>2. intakeTasks \in Seq(IntakeTask) /\ granted \in SUBSET Intakes
  BY DEF IntakeInv, IntakeTyped
<1>3. ApprovesOnly(intakeTasks, intakeTasks') /\ (approved => intakeTasks'[n].approved)
  BY <1>1, <1>2, ApprovalRecorded
<1>4. granted' \in SUBSET Intakes /\ \A j \in granted' : j \in granted \/ (j = i /\ approved)
  <2>1. CASE approved
    BY <1>1, <1>2, <2>1 DEF Grants
  <2>2. CASE ~approved
    <3>1. granted' = granted
      BY <1>1, <2>2, Zenon DEF Grants
    <3> QED BY <1>2, <3>1
  <2> QED BY <2>1, <2>2
<1>5. IntakeTyped' /\ SubmitSound'
  BY <1>1, <1>3, <1>4 DEF IntakeInv, IntakeTyped, SubmitSound, ApprovesOnly, HasTask
<1>6. ASSUME NEW j \in Intakes PROVE RecordSound(j)' /\ Counted(intakeTasks, j)'
  <2>1. RecordSound(j) /\ Counted(intakeTasks, j)
    BY DEF IntakeInv
  <2>2. Exists(j)' = Exists(j) /\ torn' = torn /\ submit' = submit /\ submissions' = submissions
    BY <1>1 DEF Exists
  <2>3. Counted(intakeTasks, j)'
    BY <1>3, <2>1, <2>2 DEF Counted, ApprovesOnly
  <2>4. RecordSound(j)'
    BY <1>1, <1>3, <1>4, <2>1, <2>2 DEF RecordSound, ApprovesOnly
  <2> QED BY <2>3, <2>4
<1> QED BY <1>5, <1>6 DEF IntakeInv

LEMMA TaskIsWritten ==
  ASSUME IntakeInv, TaskRow
  PROVE  IntakeInv'
<1> DEFINE row == [of |-> submit.of, approved |-> FALSE]
           sb == [submit EXCEPT !.at = "tasked", !.task = Len(intakeTasks) + 1]
<1>1. intakeTasks \in Seq(IntakeTask) /\ submit \in SubmitRow /\ Len(intakeTasks) \in Nat
  BY DEF IntakeInv, IntakeTyped
<1>2. row \in IntakeTask /\ row.of = submit.of
  BY <1>1 DEF IntakeTask, SubmitRow
<1>3. sb \in SubmitRow /\ sb.at = "tasked" /\ sb.of = submit.of /\ sb.task = Len(intakeTasks) + 1
  <2>1. Len(intakeTasks) + 1 \in Nat
    BY <1>1
  <2> QED BY <1>1, <2>1 DEF SubmitRow
<1>4. /\ submit.at = "decided" /\ intakeTasks' = Append(intakeTasks, row) /\ submit' = sb
      /\ UNCHANGED <<decisions, submissions, operations, torn, granted>>
  BY DEF TaskRow
<1> HIDE DEF row, sb
<1>5. /\ intakeTasks' \in Seq(IntakeTask) /\ Len(intakeTasks') = Len(intakeTasks) + 1
      /\ \A k \in 1 .. Len(intakeTasks) : intakeTasks'[k] = intakeTasks[k]
      /\ intakeTasks'[Len(intakeTasks) + 1] = row
      /\ \A i : Cardinality(TasksOf(intakeTasks, i)) \in Nat
      /\ \A i : Cardinality(TasksOf(intakeTasks', i))
                  = Cardinality(TasksOf(intakeTasks, i)) + (IF submit.of = i THEN 1 ELSE 0)
  BY <1>1, <1>2, <1>4, TaskAppended
<1>6. IntakeTyped'
  BY <1>3, <1>4, <1>5 DEF IntakeInv, IntakeTyped
<1>7. SubmitSound'
  <2>1. SubmitSound /\ submissions' = submissions
    BY <1>4 DEF IntakeInv
  <2>2. submit.of # NoIntake => ~(submissions'[submit.of].task # 0)
    BY <1>4, <2>1 DEF SubmitSound, Exists
  <2>3. submit'.task \in 1 .. Len(intakeTasks') /\ intakeTasks'[submit'.task].of = submit'.of
    BY <1>1, <1>2, <1>3, <1>4, <1>5
  <2> QED BY <1>3, <1>4, <2>2, <2>3 DEF SubmitSound, HasTask, Exists
<1>8. ASSUME NEW i \in Intakes PROVE RecordSound(i)' /\ Counted(intakeTasks, i)'
  <2>1. RecordSound(i) /\ Counted(intakeTasks, i) /\ SubmitSound
    BY DEF IntakeInv
  <2>2. Exists(i)' = Exists(i) /\ torn' = torn /\ submissions' = submissions /\ torn[i] \in Nat
    BY <1>4 DEF Exists, IntakeInv, IntakeTyped
  <2>3. RecordSound(i)'
    BY <1>1, <1>4, <1>5, <2>1, <2>2 DEF RecordSound
  <2>4. CASE submit.of = i
    <3>1. ~Exists(i) /\ ~UnderWay(submit, i) /\ UnderWay(submit', i)
      BY <1>3, <1>4, <2>1, <2>4, NoIntakeIsNone DEF SubmitSound, UnderWay, HasTask
    <3>2. Cardinality(TasksOf(intakeTasks, i)) <= torn[i]
      BY <2>1, <2>2, <3>1 DEF Counted
    <3>3. Cardinality(TasksOf(intakeTasks', i)) <= torn[i] + 1
      BY <1>5, <2>2, <2>4, <3>2
    <3>4. Counted(intakeTasks, i)'
      BY <2>2, <3>1, <3>3 DEF Counted
    <3> QED BY <2>3, <3>4
  <2>5. CASE submit.of # i
    <3>1. ~UnderWay(submit, i) /\ ~UnderWay(submit', i)
      BY <1>3, <1>4, <2>5 DEF UnderWay
    <3>2. Cardinality(TasksOf(intakeTasks', i)) = Cardinality(TasksOf(intakeTasks, i))
      BY <1>5, <2>5
    <3>3. Counted(intakeTasks, i)'
      BY <2>1, <2>2, <3>1, <3>2 DEF Counted
    <3> QED BY <2>3, <3>3
  <2> QED BY <2>4, <2>5
<1> QED BY <1>6, <1>7, <1>8 DEF IntakeInv

\* The submission goes on with the Task it has, or ends when it has no request.
LEMMA ApprovalIsWritten ==
  ASSUME IntakeInv, ApprovalRow
  PROVE  IntakeInv'
<1> DEFINE sb == [submit EXCEPT !.at = IF submit.class = "feature_plan" THEN "planning" ELSE "planned"]
<1>1. /\ intakeTasks \in Seq(IntakeTask) /\ submit \in SubmitRow /\ SubmitSound
      /\ submit.at = "tasked" /\ UNCHANGED <<decisions, submissions, operations, torn, granted>>
  BY DEF IntakeInv, IntakeTyped, ApprovalRow
<1>2. submit.task \in 1 .. Len(intakeTasks) /\ submit.approved \in BOOLEAN
  BY <1>1 DEF SubmitSound, HasTask, SubmitRow
<1>3. ApprovesOnly(intakeTasks, intakeTasks') /\ (submit.approved => intakeTasks'[submit.task].approved)
  BY <1>1, <1>2, ApprovalRecorded DEF ApprovalRow
<1>4. /\ sb \in SubmitRow /\ sb.of = submit.of /\ sb.task = submit.task /\ sb.approved = submit.approved
      /\ sb.class = submit.class
      /\ sb.at = IF submit.class = "feature_plan" THEN "planning" ELSE "planned"
  BY <1>1 DEF SubmitRow
<1>5. submit' = IF submit.of = NoIntake THEN NoSubmit ELSE sb
  BY DEF ApprovalRow
<1> HIDE DEF sb
<1>6. IntakeTyped'
  BY <1>1, <1>3, <1>4, <1>5, NoSubmitRow DEF IntakeInv, IntakeTyped, ApprovesOnly
<1>7. SubmitSound'
  <2>1. CASE submit.of = NoIntake
    BY <1>5, <2>1, NoSubmitRow DEF SubmitSound, HasTask
  <2>2. CASE submit.of # NoIntake
    <3>1. submit' = sb /\ sb.at \in {"planning", "planned"}
      BY <1>4, <1>5, <2>2
    <3>2. submissions' = submissions /\ ~(submissions[submit.of].task # 0)
      BY <1>1, <2>2 DEF Exists, SubmitSound
    <3>3. intakeTasks'[submit.task].of = submit.of
      BY <1>1, <1>2, <1>3 DEF SubmitSound, HasTask, ApprovesOnly
    <3> QED BY <1>2, <1>3, <1>4, <2>2, <3>1, <3>2, <3>3 DEF SubmitSound, HasTask, ApprovesOnly, Exists
  <2> QED BY <2>1, <2>2
<1>8. ASSUME NEW i \in Intakes PROVE RecordSound(i)' /\ Counted(intakeTasks, i)'
  <2>1. RecordSound(i) /\ Counted(intakeTasks, i)
    BY DEF IntakeInv
  <2>2. Exists(i)' = Exists(i) /\ torn' = torn /\ submissions' = submissions
    BY <1>1 DEF Exists
  <2>3. RecordSound(i)'
    BY <1>1, <1>3, <2>1, <2>2 DEF RecordSound, ApprovesOnly
  <2>4. UnderWay(submit', i) = UnderWay(submit, i)
    BY <1>1, <1>4, <1>5, NoSubmitRow, NoIntakeIsNone DEF UnderWay, HasTask
  <2>5. Counted(intakeTasks, i)'
    BY <1>3, <2>1, <2>2, <2>4 DEF Counted, ApprovesOnly
  <2> QED BY <2>3, <2>5
<1> QED BY <1>6, <1>7, <1>8 DEF IntakeInv

LEMMA PlanIsWritten ==
  ASSUME IntakeInv, PlanRow
  PROVE  IntakeInv'
<1> DEFINE sb == [submit EXCEPT !.at = "planned"]
           i0 == submit.of
<1>1. /\ submit \in SubmitRow /\ SubmitSound /\ submit.at = "planning"
      /\ UNCHANGED <<intakeTasks, decisions, submissions, torn, granted>>
      /\ operations' = [operations EXCEPT ![i0] = submit.task] /\ submit' = sb
      /\ operations \in [Intakes -> Nat]
  BY DEF IntakeInv, IntakeTyped, PlanRow
<1>2. /\ sb \in SubmitRow /\ sb.at = "planned" /\ sb.of = i0 /\ sb.task = submit.task
      /\ sb.approved = submit.approved /\ sb.class = submit.class
  BY <1>1 DEF SubmitRow
<1> HIDE DEF sb
<1>3. i0 \in Intakes /\ ~Exists(i0) /\ submit.task \in Nat
  BY <1>1 DEF SubmitSound, SubmitRow
<1>4. /\ operations' \in [Intakes -> Nat] /\ operations'[i0] = submit.task
      /\ \A j \in Intakes : j # i0 => operations'[j] = operations[j]
  BY <1>1, <1>3
<1>5. IntakeTyped'
  BY <1>1, <1>2, <1>4 DEF IntakeInv, IntakeTyped
<1>6. SubmitSound'
  BY <1>1, <1>2, <1>3, <1>4 DEF SubmitSound, HasTask, Exists
<1>7. ASSUME NEW i \in Intakes PROVE RecordSound(i)' /\ Counted(intakeTasks, i)'
  <2>1. RecordSound(i) /\ Counted(intakeTasks, i)
    BY DEF IntakeInv
  <2>2. Exists(i)' = Exists(i) /\ torn' = torn /\ submissions' = submissions /\ (Exists(i) => i # i0)
    BY <1>1, <1>3 DEF Exists
  <2>3. RecordSound(i)'
    BY <1>1, <1>4, <2>1, <2>2 DEF RecordSound
  <2>4. UnderWay(submit', i) = UnderWay(submit, i)
    BY <1>1, <1>2 DEF UnderWay, HasTask
  <2>5. Counted(intakeTasks, i)'
    BY <1>1, <2>1, <2>2, <2>4 DEF Counted
  <2> QED BY <2>3, <2>5
<1> QED BY <1>5, <1>6, <1>7 DEF IntakeInv

LEMMA SubmissionIsWritten ==
  ASSUME IntakeInv, SubmissionRow
  PROVE  IntakeInv'
<1> DEFINE i0 == submit.of
           row == [task |-> submit.task, planned |-> submit.class = "feature_plan"]
<1>1. /\ submit \in SubmitRow /\ SubmitSound /\ submit.at = "planned"
      /\ UNCHANGED <<intakeTasks, decisions, operations, torn>>
      /\ submissions' = [submissions EXCEPT ![i0] = row] /\ submit' = NoSubmit
      /\ submissions \in [Intakes -> [task : Nat, planned : BOOLEAN]]
      /\ Grants(i0, submit.approved) /\ granted \in SUBSET Intakes
      /\ intakeTasks \in Seq(IntakeTask)
  BY DEF IntakeInv, IntakeTyped, SubmissionRow
<1>2. i0 \in Intakes /\ ~Exists(i0) /\ submit.task \in 1 .. Len(intakeTasks) /\ submit.approved \in BOOLEAN
      /\ intakeTasks[submit.task].of = i0
  BY <1>1 DEF SubmitSound, SubmitRow, HasTask
<1>3. row \in [task : Nat, planned : BOOLEAN] /\ row.task = submit.task /\ row.task # 0
      /\ (row.planned => submit.class = "feature_plan")
  <2>1. row \in [task : Nat, planned : BOOLEAN] /\ row.task = submit.task
        /\ row.planned = (submit.class = "feature_plan")
    BY <1>1, <1>2
  <2>2. row.task # 0
    BY <1>1, <1>2, <2>1
  <2> HIDE DEF row
  <2> QED BY <2>1, <2>2, Zenon
<1> HIDE DEF row
<1>4. /\ submissions' \in [Intakes -> [task : Nat, planned : BOOLEAN]] /\ submissions'[i0] = row
      /\ \A j \in Intakes : j # i0 => submissions'[j] = submissions[j]
  BY <1>1, <1>2, <1>3
<1>5. /\ granted' \in SUBSET Intakes /\ \A j \in granted' : j \in granted \/ (j = i0 /\ submit.approved)
      /\ i0 \notin granted
  <2>1. i0 \notin granted
    BY <1>2 DEF IntakeInv, RecordSound
  <2>2. CASE submit.approved
    BY <1>1, <1>2, <2>1, <2>2 DEF Grants
  <2>3. CASE ~submit.approved
    <3>1. granted' = granted
      BY <1>1, <2>3, Zenon DEF Grants
    <3> QED BY <1>1, <2>1, <3>1
  <2> QED BY <2>2, <2>3
<1>6. IntakeTyped'
  BY <1>1, <1>4, <1>5, NoSubmitRow DEF IntakeInv, IntakeTyped
<1>7. SubmitSound'
  BY <1>1, NoSubmitRow DEF SubmitSound, HasTask
<1>8. ASSUME NEW i \in Intakes PROVE RecordSound(i)' /\ Counted(intakeTasks, i)'
  <2>1. RecordSound(i) /\ Counted(intakeTasks, i)
    BY DEF IntakeInv
  <2>2. ~UnderWay(submit', i)
    BY <1>1, NoSubmitRow DEF UnderWay, HasTask
  <2>3. CASE i = i0
    <3>1. UnderWay(submit, i) /\ Exists(i)'
      BY <1>1, <1>3, <1>4, <2>3 DEF UnderWay, HasTask, Exists
    <3>2. Counted(intakeTasks, i)'
      BY <1>1, <2>1, <3>1 DEF Counted
    <3>3. RecordSound(i)'
      BY <1>1, <1>2, <1>3, <1>4, <1>5, <2>3, <3>1 DEF RecordSound, SubmitSound
    <3> QED BY <3>2, <3>3
  <2>4. CASE i # i0
    <3>1. Exists(i)' = Exists(i) /\ submissions'[i] = submissions[i] /\ ~UnderWay(submit, i)
      BY <1>4, <2>4 DEF Exists, UnderWay
    <3>2. Counted(intakeTasks, i)'
      BY <1>1, <2>1, <2>2, <3>1 DEF Counted
    <3>3. RecordSound(i)'
      BY <1>1, <1>5, <2>1, <2>4, <3>1 DEF RecordSound, Exists
    <3> QED BY <3>2, <3>3
  <2> QED BY <2>3, <2>4
<1> QED BY <1>6, <1>7, <1>8 DEF IntakeInv

\* What is under way stops: the plan is refused or the program dies.
LEMMA SubmissionIsTorn ==
  ASSUME IntakeInv, submit.at # "none", IF submit.at = "decided" THEN UNCHANGED torn ELSE Tears,
         submit' = NoSubmit,
         UNCHANGED <<intakeTasks, decisions, submissions, operations, granted>>
  PROVE  IntakeInv'
<1>1. submit \in SubmitRow /\ torn \in [Intakes -> Nat] /\ SubmitSound
  BY DEF IntakeInv, IntakeTyped
<1>2. CASE ~HasTask(submit) \/ submit.of = NoIntake
  <2>1. torn' = torn
    BY <1>1, <1>2 DEF Tears, HasTask, SubmitRow
  <2>2. IntakeTyped' /\ SubmitSound'
    BY <2>1, NoSubmitRow DEF IntakeInv, IntakeTyped, SubmitSound, HasTask
  <2>3. ASSUME NEW i \in Intakes PROVE RecordSound(i)' /\ Counted(intakeTasks, i)'
    <3>1. RecordSound(i) /\ Counted(intakeTasks, i)
      BY DEF IntakeInv
    <3>2. ~UnderWay(submit, i) /\ ~UnderWay(submit', i)
      BY <1>2, NoSubmitRow, NoIntakeIsNone DEF UnderWay, HasTask
    <3>3. Exists(i)' = Exists(i)
      BY DEF Exists
    <3>4. Counted(intakeTasks, i)'
      BY <2>1, <3>1, <3>2, <3>3 DEF Counted
    <3> QED BY <3>1, <3>3, <3>4 DEF RecordSound
  <2> QED BY <2>2, <2>3 DEF IntakeInv
<1>3. CASE HasTask(submit) /\ submit.of # NoIntake
  <2> DEFINE i0 == submit.of
  <2>1. i0 \in Intakes /\ torn' = [torn EXCEPT ![i0] = @ + 1] /\ ~Exists(i0)
    BY <1>1, <1>3 DEF Tears, HasTask, SubmitRow, SubmitSound
  <2>2. /\ torn' \in [Intakes -> Nat] /\ torn'[i0] = torn[i0] + 1 /\ torn[i0] \in Nat
        /\ \A j \in Intakes : j # i0 => torn'[j] = torn[j]
    BY <1>1, <2>1
  <2>3. IntakeTyped' /\ SubmitSound'
    BY <2>2, NoSubmitRow DEF IntakeInv, IntakeTyped, SubmitSound, HasTask
  <2>4. ASSUME NEW i \in Intakes PROVE RecordSound(i)' /\ Counted(intakeTasks, i)'
    <3>1. RecordSound(i) /\ Counted(intakeTasks, i)
      BY DEF IntakeInv
    <3>2. Exists(i)' = Exists(i) /\ ~UnderWay(submit', i)
      BY NoSubmitRow DEF Exists, UnderWay, HasTask
    <3>3. CASE i = i0
      <4>1. Cardinality(TasksOf(intakeTasks, i)) <= torn[i] + 1
        BY <1>3, <3>1, <3>3 DEF Counted, UnderWay
      <4>2. Counted(intakeTasks, i)'
        BY <2>1, <2>2, <3>2, <3>3, <4>1 DEF Counted
      <4> QED BY <3>1, <3>2, <4>2 DEF RecordSound
    <3>4. CASE i # i0
      <4>1. ~UnderWay(submit, i)
        BY <3>4 DEF UnderWay
      <4>2. Counted(intakeTasks, i)'
        BY <2>2, <3>1, <3>2, <3>4, <4>1 DEF Counted
      <4> QED BY <3>1, <3>2, <4>2 DEF RecordSound
    <3> QED BY <3>3, <3>4
  <2> QED BY <2>3, <2>4 DEF IntakeInv
<1> QED BY <1>2, <1>3

LEMMA IntakeGoesOn ==
  ASSUME IntakeInv,
         \/ UNCHANGED <<intakeTasks, decisions, submissions, operations, submit, torn, granted>>
         \/ SubmitGoesOn \/ IntakeDies
  PROVE  IntakeInv'
<1>1. CASE UNCHANGED <<intakeTasks, decisions, submissions, operations, submit, torn, granted>>
  <2>1. IntakeTyped' /\ SubmitSound'
    BY <1>1 DEF IntakeInv, IntakeTyped, SubmitSound, HasTask, Exists
  <2>2. ASSUME NEW i \in Intakes PROVE RecordSound(i)' /\ Counted(intakeTasks, i)'
    BY <1>1 DEF IntakeInv, RecordSound, Counted, Exists
  <2> QED BY <2>1, <2>2 DEF IntakeInv
<1>2. CASE SubmitGoesOn
  <2>1. CASE PlanRefused
    <3>1. submit.at # "none" /\ submit.at # "decided" /\ Tears /\ submit' = NoSubmit
          /\ UNCHANGED <<intakeTasks, decisions, submissions, operations, granted>>
      BY <2>1 DEF PlanRefused
    <3> QED BY <3>1, SubmissionIsTorn
  <2> QED BY <1>2, <2>1, TaskIsWritten, ApprovalIsWritten, PlanIsWritten, SubmissionIsWritten DEF SubmitGoesOn
<1>3. CASE IntakeDies
  BY <1>3, SubmissionIsTorn DEF IntakeDies
<1> QED BY <1>1, <1>2, <1>3

LEMMA IntakeIsSound == IntakeInv => SubmissionIsSound
<1> SUFFICES ASSUME IntakeInv, NEW i \in Intakes
             PROVE  /\ Cardinality({k \in DOMAIN intakeTasks : intakeTasks[k].of = i}) <= 1 + torn[i]
                    /\ Exists(i) => /\ intakeTasks[submissions[i].task].of = i
                                    /\ submissions[i].planned => operations[i] = submissions[i].task
                                    /\ i \in granted => intakeTasks[submissions[i].task].approved
  BY DEF SubmissionIsSound
<1>1. RecordSound(i) /\ Counted(intakeTasks, i) /\ torn[i] \in Nat /\ intakeTasks \in Seq(IntakeTask)
  BY DEF IntakeInv, IntakeTyped
<1>2. {k \in DOMAIN intakeTasks : intakeTasks[k].of = i} = TasksOf(intakeTasks, i)
  BY <1>1 DEF TasksOf
<1>3. IsFiniteSet(TasksOf(intakeTasks, i))
  <2>1. Len(intakeTasks) \in Nat /\ IsFiniteSet(1 .. Len(intakeTasks))
    BY <1>1, FS_Interval
  <2> QED BY <2>1, FS_Subset DEF TasksOf
<1>4. Cardinality(TasksOf(intakeTasks, i)) \in Nat
  BY <1>3, FS_CardinalityType
<1>5. Cardinality(TasksOf(intakeTasks, i)) <= 1 + torn[i]
  BY <1>1, <1>4 DEF Counted
<1> QED BY <1>1, <1>2, <1>5 DEF RecordSound

-----------------------------------------------------------------------------
\* TelegramGateway.

Settled(u) == effects[u] > 0 \/ u \in refused
AtWork == {"awaiting", "acting"}

GatewayTyped ==
  /\ bot \in {"down", "polling"} /\ intakeDeaths \in Nat
  /\ written \in Seq(TelegramMessage) /\ Len(written) \in Updates \cup {0}
  /\ \A u \in 1 .. Len(written) : u \in Updates /\ written[u] \in Written[u]
  /\ confirmed \in Nat /\ tried \in Nat /\ batch \in Nat
  /\ confirmed <= tried /\ tried <= batch /\ batch <= Len(written)
  /\ effects \in [Updates -> Nat] /\ handled \in [Updates -> Nat] /\ refused \in SUBSET Updates
  /\ cached \in {NoIntake, chosen}

\* Only this bot's messages may have been begun since the last death.
BegunOnce ==
  /\ bot = "down" => handler = "none" /\ \A u \in Updates : handled[u] <= intakeDeaths
  /\ bot = "polling" => \A u \in Updates : u > tried => handled[u] <= intakeDeaths
  /\ \A u \in Updates : handled[u] <= 1 + intakeDeaths

\* What this bot has tried is settled, except for the message whose handler waits.
TriedIsSettled ==
  /\ \A u \in 1 .. confirmed : Settled(u)
  /\ bot = "polling" => \A u \in 1 .. tried : Settled(u) \/ (u = tried /\ handler \in AtWork)
  /\ handler \in AtWork => tried \in 1 .. Len(written) /\ Allowed(written[tried])
  /\ \A u \in Updates : effects[u] > 0 => u \in 1 .. Len(written) /\ Allowed(written[u])

GatewayInv == IntakeInv /\ GatewayTyped /\ BegunOnce /\ TriedIsSettled

LEMMA GatewayBegins == TelegramInit => GatewayInv
<1> SUFFICES ASSUME TelegramInit PROVE GatewayInv
  OBVIOUS
<1>1. IntakeInit /\ bot = "down" /\ written = <<>> /\ handler = "none"
      /\ confirmed = 0 /\ tried = 0 /\ batch = 0
      /\ effects = [u \in Updates |-> 0] /\ handled = [u \in Updates |-> 0] /\ refused = {}
      /\ cached = NoIntake
  BY DEF TelegramInit, TelegramStarts
<1>2. IntakeTyped
  <2>1. NoSubmission \in [task : Nat, planned : BOOLEAN] /\ intakeTasks \in Seq(IntakeTask)
    BY <1>1 DEF IntakeInit, NoSubmission
  <2> QED BY <1>1, <2>1, NoSubmitRow DEF IntakeInit, IntakeTyped
<1>3. SubmitSound
  BY <1>1, NoSubmitRow DEF IntakeInit, SubmitSound, HasTask
<1>4. ASSUME NEW i \in Intakes PROVE RecordSound(i) /\ Counted(intakeTasks, i)
  <2>1. ~Exists(i) /\ i \notin granted /\ ~UnderWay(submit, i) /\ torn[i] = 0
    BY <1>1, NoSubmitRow DEF IntakeInit, Exists, NoSubmission, UnderWay, HasTask
  <2>2. TasksOf(intakeTasks, i) = {}
    BY <1>1 DEF IntakeInit, TasksOf
  <2> QED BY <2>1, <2>2, FS_EmptySet DEF RecordSound, Counted
<1>5. IntakeInv
  BY <1>2, <1>3, <1>4 DEF IntakeInv
<1>6. GatewayTyped /\ BegunOnce /\ TriedIsSettled
  BY <1>1 DEF IntakeInit, GatewayTyped, BegunOnce, TriedIsSettled, Settled, AtWork
<1> QED BY <1>5, <1>6 DEF GatewayInv

\* What the handlers of the bot may do for the message u.
HandlerSettles(u) ==
  \/ Allowed(written[u]) /\ Changes(u) /\ UNCHANGED refused /\ handler' = "replying"
  \/ Refuses(u) /\ UNCHANGED effects /\ handler' = "replying"
  \/ Allowed(written[u]) /\ UNCHANGED <<effects, refused>> /\ handler' \in AtWork

LEMMA HandlerRuns ==
  ASSUME GatewayInv, Handles
  PROVE  /\ IntakeInv' /\ HandlerSettles(tried + 1) /\ cached' \in {NoIntake, chosen'}
         /\ bot = "polling" /\ handler = "none" /\ tried < batch /\ tried' = tried + 1
         /\ handled' = [handled EXCEPT ![tried + 1] = @ + 1]
         /\ UNCHANGED <<bot, written, confirmed, batch, intakeDeaths>>
<1> DEFINE u == tried + 1
           m == written[u]
<1>1. /\ IntakeInv /\ bot = "polling" /\ handler = "none" /\ tried < batch /\ tried' = u
      /\ handled' = [handled EXCEPT ![u] = @ + 1] /\ cached \in {NoIntake, chosen}
      /\ UNCHANGED <<bot, written, confirmed, batch>>
  BY DEF Handles, GatewayInv, GatewayTyped
<1>2. u \in 1 .. Len(written) /\ u \in Updates /\ m \in Written[u] /\ m \in TelegramMessage
  <2>1. u \in 1 .. Len(written)
    BY <1>1 DEF GatewayInv, GatewayTyped
  <2>2. u \in Updates /\ m \in Written[u]
    BY <2>1 DEF GatewayInv, GatewayTyped
  <2> QED BY <2>1, <2>2, GatewayBounds
<1>3. \/ Denied(m) \/ Unparsed(m) \/ Queried(m) \/ WorkSubmitted(m) \/ Previewed(m)
      \/ FollowedUp(m) \/ Changed(m) \/ ReviewAwaited(m) \/ Talked(m) \/ ActionTaken(m)
  BY <1>1 DEF Handles
<1>4. m.input \in Inputs /\ (m.kind \in {"submit", "preview"} => m.of \in Intakes)
  BY <1>2, GatewayBounds DEF TelegramMessage
<1> HIDE DEF u, m
<1>5. CASE Denied(m) \/ Unparsed(m) \/ Queried(m)
  <2>1. /\ Refuses(u) /\ handler' = "replying"
        /\ UNCHANGED <<effects, chosen, cached, intakeTasks, decisions, submissions, operations, submit,
                       torn, granted, intakeDeaths>>
    BY <1>1, <1>5 DEF Denied, Unparsed, Queried, HandlerBecomes, Refuses, intakeVars
  <2>2. IntakeInv'
    BY <1>1, <2>1, IntakeGoesOn
  <2> QED BY <1>1, <2>1, <2>2 DEF HandlerSettles, u
<1>6. CASE WorkSubmitted(m) \/ Previewed(m) \/ FollowedUp(m)
  <2>1. /\ Allowed(m) /\ Changes(u) /\ UNCHANGED <<refused, chosen, cached>> /\ handler' = "replying"
        /\ \/ m.kind = "submit" /\ (SubmitsAgain(m.of, TRUE) \/ Submits(m.of, m.input, TRUE))
           \/ m.kind = "preview" /\ Previews(m.of, m.input)
           \/ CreatesDirectly(TRUE)
    BY <1>1, <1>6 DEF WorkSubmitted, Previewed, FollowedUp, Handled, HandlerBecomes, Changes
  <2>2. CASE m.kind = "submit" /\ SubmitsAgain(m.of, TRUE)
    <3>1. IntakeInv'
      BY <1>1, <1>4, <2>2, IntakeSubmitsAgain
    <3> QED BY <1>1, <2>1, <2>2, <3>1 DEF HandlerSettles, SubmitsAgain, u, m
  <2>3. CASE m.kind = "submit" /\ Submits(m.of, m.input, TRUE)
    <3>1. IntakeInv'
      BY <1>1, <1>4, <2>3, IntakeSubmits
    <3> QED BY <1>1, <2>1, <2>3, <3>1 DEF HandlerSettles, Submits, u, m
  <2>4. CASE m.kind = "preview" /\ Previews(m.of, m.input)
    <3>1. IntakeInv'
      BY <1>1, <1>4, <2>4, IntakeSubmits
    <3> QED BY <1>1, <2>1, <2>4, <3>1 DEF HandlerSettles, Previews, u, m
  <2>5. CASE CreatesDirectly(TRUE)
    <3>1. IntakeInv'
      BY <1>1, <2>5, DirectTaskBegins
    <3> QED BY <1>1, <2>1, <2>5, <3>1 DEF HandlerSettles, CreatesDirectly, u, m
  <2> QED BY <2>1, <2>2, <2>3, <2>4, <2>5
<1>7. CASE Changed(m)
  <2>1. /\ Allowed(m) /\ handler' = "replying"
        /\ (Changes(u) /\ UNCHANGED refused) \/ (Refuses(u) /\ UNCHANGED effects)
        /\ UNCHANGED <<chosen, cached, intakeTasks, decisions, submissions, operations, submit, torn,
                       granted, intakeDeaths>>
    BY <1>1, <1>7 DEF Changed, Handled, HandlerBecomes, Changes, Refuses, intakeVars
  <2>2. IntakeInv'
    BY <1>1, <2>1, IntakeGoesOn
  <2> QED BY <1>1, <2>1, <2>2 DEF HandlerSettles, u, m
<1>8. CASE ReviewAwaited(m) \/ Talked(m) \/ ActionTaken(m)
  <2>1. /\ Allowed(m) /\ handler' \in AtWork /\ cached' \in {NoIntake, chosen'}
        /\ UNCHANGED <<effects, refused, intakeTasks, decisions, submissions, operations, submit, torn,
                       granted, intakeDeaths>>
    BY <1>1, <1>8 DEF ReviewAwaited, Talked, ActionTaken, Handled, HandlerBecomes, AtWork, Selected, intakeVars
  <2>2. IntakeInv'
    BY <1>1, <2>1, IntakeGoesOn
  <2> QED BY <1>1, <2>1, <2>2 DEF HandlerSettles, u, m
<1> QED BY <1>3, <1>5, <1>6, <1>7, <1>8

\* A handler that settles the latest message.
LEMMA MessageSettles ==
  ASSUME GatewayTyped, NEW u \in 1 .. Len(written), HandlerSettles(u),
         written' = written, Len(written) \in Nat,
         \A v \in Updates : effects[v] > 0 => v \in 1 .. Len(written) /\ Allowed(written[v])
  PROVE  /\ effects' \in [Updates -> Nat] /\ refused' \in SUBSET Updates
         /\ \A v \in Updates : Settled(v) => Settled(v)'
         /\ (Settled(u)' /\ handler' = "replying") \/ (Allowed(written[u]) /\ handler' \in AtWork)
         /\ \A v \in Updates : effects'[v] > 0 => v \in 1 .. Len(written) /\ Allowed(written[v])
<1>1. u \in Updates /\ effects \in [Updates -> Nat] /\ refused \in SUBSET Updates
  BY DEF GatewayTyped
<1>2. CASE Allowed(written[u]) /\ Changes(u) /\ UNCHANGED refused /\ handler' = "replying"
  <2>1. /\ effects' \in [Updates -> Nat] /\ effects'[u] = effects[u] + 1
        /\ \A v \in Updates : v # u => effects'[v] = effects[v]
    BY <1>1, <1>2 DEF Changes
  <2> QED BY <1>1, <1>2, <2>1 DEF Settled
<1>3. CASE Refuses(u) /\ UNCHANGED effects /\ handler' = "replying"
  BY <1>1, <1>3 DEF Refuses, Settled
<1>4. CASE Allowed(written[u]) /\ UNCHANGED <<effects, refused>> /\ handler' \in AtWork
  BY <1>1, <1>4 DEF Settled
<1> QED BY <1>2, <1>3, <1>4 DEF HandlerSettles

LEMMA GatewayHandles ==
  ASSUME GatewayInv, Handles
  PROVE  GatewayInv'
<1>1. PICK u : u = tried + 1
  OBVIOUS
<1>2. /\ IntakeInv' /\ HandlerSettles(u) /\ cached' \in {NoIntake, chosen'}
      /\ bot = "polling" /\ handler = "none" /\ tried < batch /\ tried' = u
      /\ handled' = [handled EXCEPT ![u] = @ + 1]
      /\ UNCHANGED <<bot, written, confirmed, batch, intakeDeaths>>
  BY <1>1, HandlerRuns
<1>3. GatewayTyped /\ BegunOnce /\ TriedIsSettled
  BY DEF GatewayInv
<1>4. tried \in Nat /\ batch \in Nat /\ confirmed \in Nat /\ Len(written) \in Nat /\ intakeDeaths \in Nat
      /\ confirmed <= tried /\ batch <= Len(written) /\ handled \in [Updates -> Nat]
      /\ \A v \in 1 .. Len(written) : v \in Updates
  BY <1>3 DEF GatewayTyped
<1>5. u \in 1 .. Len(written) /\ u \in Updates
  BY <1>2, <1>4, <1>1
<1>6. /\ effects' \in [Updates -> Nat] /\ refused' \in SUBSET Updates
      /\ \A v \in Updates : Settled(v) => Settled(v)'
      /\ (Settled(u)' /\ handler' = "replying") \/ (Allowed(written[u]) /\ handler' \in AtWork)
      /\ \A v \in Updates : effects'[v] > 0 => v \in 1 .. Len(written) /\ Allowed(written[v])
  <2>1. \A v \in Updates : effects[v] > 0 => v \in 1 .. Len(written) /\ Allowed(written[v])
    BY <1>3 DEF TriedIsSettled
  <2> QED BY <1>2, <1>3, <1>4, <1>5, <2>1, MessageSettles
<1>7. /\ handled' \in [Updates -> Nat] /\ handled'[u] = handled[u] + 1
      /\ \A v \in Updates : v # u => handled'[v] = handled[v]
  BY <1>2, <1>4, <1>5
<1>8. GatewayTyped'
  BY <1>2, <1>3, <1>4, <1>6, <1>7, <1>1 DEF GatewayTyped
<1>9. BegunOnce'
  <2>1. handled[u] <= intakeDeaths
    BY <1>2, <1>3, <1>4, <1>5, <1>1 DEF BegunOnce
  <2>2. \A v \in Updates : v > u => handled'[v] <= intakeDeaths
    <3>1. \A v \in Updates : v > u => v > tried /\ v # u
      BY <1>4, <1>1, GatewayBounds
    <3> QED BY <1>2, <1>3, <1>7, <3>1 DEF BegunOnce
  <2>3. \A v \in Updates : handled'[v] <= 1 + intakeDeaths
    BY <1>3, <1>4, <1>7, <2>1 DEF BegunOnce
  <2> QED BY <1>2, <2>2, <2>3 DEF BegunOnce
<1>10. TriedIsSettled'
  <2>1. \A v \in 1 .. tried : v \in Updates /\ Settled(v)'
    BY <1>2, <1>3, <1>4, <1>6 DEF TriedIsSettled, AtWork
  <2>2. \A v \in 1 .. u : v \in 1 .. tried \/ v = u
    BY <1>4, <1>1
  <2>3. \A v \in 1 .. confirmed : v \in 1 .. tried
    BY <1>4
  <2>4. \A v \in 1 .. u : Settled(v)' \/ (v = u /\ handler' \in AtWork)
    BY <1>6, <2>1, <2>2
  <2>5. handler' \in AtWork => u \in 1 .. Len(written) /\ Allowed(written[u])
    BY <1>5, <1>6 DEF AtWork
  <2>6. \A v \in 1 .. confirmed : Settled(v)'
    BY <2>1, <2>3
  <2> QED BY <1>2, <1>6, <2>4, <2>5, <2>6 DEF TriedIsSettled
<1> QED BY <1>2, <1>8, <1>9, <1>10 DEF GatewayInv

LEMMA GatewayAwaits ==
  ASSUME GatewayInv, Awaited
  PROVE  GatewayInv'
<1>1. /\ bot = "polling" /\ handler \in AtWork /\ handler' = "replying"
      /\ UNCHANGED <<bot, written, confirmed, tried, batch, handled, intakeTasks, decisions, submissions,
                     operations, submit, torn, granted, intakeDeaths>>
      /\ (Changes(tried) /\ UNCHANGED refused) \/ (Refuses(tried) /\ UNCHANGED effects)
      /\ UNCHANGED <<chosen, cached>> \/ cached' = chosen'
  BY DEF Awaited, HandlerBecomes, AtWork, intakeVars
<1>2. GatewayTyped /\ BegunOnce /\ TriedIsSettled /\ IntakeInv
  BY DEF GatewayInv
<1>3. /\ tried \in 1 .. Len(written) /\ Allowed(written[tried]) /\ Len(written) \in Nat
      /\ \A v \in Updates : effects[v] > 0 => v \in 1 .. Len(written) /\ Allowed(written[v])
  BY <1>1, <1>2 DEF TriedIsSettled, GatewayTyped
<1>4. HandlerSettles(tried)
  BY <1>1, <1>3 DEF HandlerSettles
<1>5. /\ effects' \in [Updates -> Nat] /\ refused' \in SUBSET Updates
      /\ \A v \in Updates : Settled(v) => Settled(v)'
      /\ (Settled(tried)' /\ handler' = "replying") \/ (Allowed(written[tried]) /\ handler' \in AtWork)
      /\ \A v \in Updates : effects'[v] > 0 => v \in 1 .. Len(written) /\ Allowed(written[v])
  BY <1>1, <1>2, <1>3, <1>4, MessageSettles
<1>6. IntakeInv'
  BY <1>1, <1>2, IntakeGoesOn
<1>7. GatewayTyped'
  BY <1>1, <1>2, <1>5 DEF GatewayTyped
<1>8. BegunOnce'
  BY <1>1, <1>2 DEF BegunOnce
<1>9. TriedIsSettled'
  <2>1. \A v \in 1 .. tried : v \in Updates /\ confirmed <= tried
    BY <1>2 DEF GatewayTyped
  <2>2. handler' \notin AtWork
    BY <1>1 DEF AtWork
  <2>3. \A v \in 1 .. tried : Settled(v)'
    BY <1>1, <1>2, <1>5, <2>1, <2>2 DEF TriedIsSettled, Settled
  <2>4. \A v \in 1 .. confirmed : v \in 1 .. tried
    BY <1>2 DEF GatewayTyped
  <2> QED BY <1>1, <1>5, <2>2, <2>3, <2>4 DEF TriedIsSettled
<1> QED BY <1>6, <1>7, <1>8, <1>9 DEF GatewayInv

LEMMA GatewayReplies ==
  ASSUME GatewayInv,
         Replied \/ Polls \/ BotStarts \/ DashboardSubmits \/ (SubmitGoesOn /\ UNCHANGED <<botVars, submitted>>)
  PROVE  GatewayInv'
<1>1. IntakeInv /\ GatewayTyped /\ BegunOnce /\ TriedIsSettled
  BY DEF GatewayInv
<1>2. CASE Replied
  <2>1. /\ handler = "replying" /\ handler' = "none"
        /\ UNCHANGED <<bot, written, confirmed, tried, batch, effects, refused, handled, chosen, cached,
                       intakeTasks, decisions, submissions, operations, submit, torn, granted, intakeDeaths>>
    BY <1>2 DEF Replied, HandlerBecomes, intakeVars
  <2>2. IntakeInv'
    BY <1>1, <2>1, IntakeGoesOn
  <2>3. GatewayTyped' /\ BegunOnce' /\ TriedIsSettled'
    BY <1>1, <2>1 DEF GatewayTyped, BegunOnce, TriedIsSettled, Settled, AtWork
  <2> QED BY <2>2, <2>3 DEF GatewayInv
<1>3. CASE Polls
  <2>1. /\ bot = "polling" /\ handler = "none" /\ tried = batch /\ confirmed' = tried /\ batch' = Len(written)
        /\ UNCHANGED <<bot, written, tried, handler, effects, refused, handled, chosen, cached,
                       intakeTasks, decisions, submissions, operations, submit, torn, granted, intakeDeaths>>
    BY <1>3 DEF Polls, intakeVars
  <2>2. IntakeInv'
    BY <1>1, <2>1, IntakeGoesOn
  <2>3. GatewayTyped' /\ BegunOnce'
    BY <1>1, <2>1 DEF GatewayTyped, BegunOnce
  <2>4. TriedIsSettled'
    BY <1>1, <2>1 DEF TriedIsSettled, Settled, AtWork
  <2> QED BY <2>2, <2>3, <2>4 DEF GatewayInv
<1>4. CASE BotStarts
  <2>1. /\ bot = "down" /\ bot' = "polling" /\ tried' = confirmed /\ batch' = confirmed /\ cached' = NoIntake
        /\ UNCHANGED <<written, confirmed, handler, effects, refused, handled, chosen,
                       intakeTasks, decisions, submissions, operations, submit, torn, granted, intakeDeaths>>
    BY <1>4 DEF BotStarts, intakeVars
  <2>2. IntakeInv'
    BY <1>1, <2>1, IntakeGoesOn
  <2>3. GatewayTyped' /\ BegunOnce'
    BY <1>1, <2>1 DEF GatewayTyped, BegunOnce
  <2>4. TriedIsSettled'
    BY <1>1, <2>1 DEF TriedIsSettled, Settled, AtWork, BegunOnce
  <2> QED BY <2>2, <2>3, <2>4 DEF GatewayInv
<1>5. ASSUME IntakeInv', UNCHANGED <<botVars, intakeDeaths>> PROVE GatewayInv'
  BY <1>1, <1>5 DEF GatewayInv, GatewayTyped, BegunOnce, TriedIsSettled, Settled, AtWork, botVars
<1>6. CASE DashboardSubmits
  <2>1. UNCHANGED botVars
    BY <1>6 DEF DashboardSubmits
  <2>2. CASE \E i \in Intakes, approved \in BOOLEAN : SubmitsAgain(i, approved)
    <3>1. IntakeInv' /\ UNCHANGED intakeDeaths
      BY <1>1, <2>2, IntakeSubmitsAgain DEF SubmitsAgain
    <3> QED BY <1>5, <2>1, <3>1
  <2>3. CASE \E i \in Intakes, approved \in BOOLEAN, input \in Inputs :
               Submits(i, input, approved) \/ Previews(i, input)
    <3>1. IntakeInv' /\ UNCHANGED intakeDeaths
      BY <1>1, <2>3, IntakeSubmits DEF Submits, Previews
    <3> QED BY <1>5, <2>1, <3>1
  <2>4. CASE \E approved \in BOOLEAN : CreatesDirectly(approved)
    <3>1. IntakeInv' /\ UNCHANGED intakeDeaths
      BY <1>1, <2>4, DirectTaskBegins DEF CreatesDirectly
    <3> QED BY <1>5, <2>1, <3>1
  <2> QED BY <1>6, <2>2, <2>3, <2>4 DEF DashboardSubmits
<1>7. CASE SubmitGoesOn /\ UNCHANGED <<botVars, submitted>>
  <2>1. IntakeInv'
    BY <1>1, <1>7, IntakeGoesOn
  <2>2. UNCHANGED <<botVars, intakeDeaths>>
    BY <1>7 DEF SubmitGoesOn, TaskRow, ApprovalRow, PlanRow, PlanRefused, SubmissionRow
  <2> QED BY <1>5, <2>1, <2>2
<1> QED BY <1>2, <1>3, <1>4, <1>6, <1>7

LEMMA GatewayEnds ==
  ASSUME GatewayInv, ReplyThrows \/ GatewayDies
  PROVE  GatewayInv'
<1>1. IntakeInv /\ GatewayTyped /\ BegunOnce /\ TriedIsSettled
  BY DEF GatewayInv
<1>2. /\ bot = "polling" /\ bot' = "down" /\ handler' = "none" /\ intakeDeaths' = intakeDeaths + 1
      /\ confirmed' = confirmed \/ (handler = "replying" /\ confirmed' = tried)
      /\ UNCHANGED <<written, tried, batch, effects, refused, handled, chosen, cached>>
      /\ \/ UNCHANGED <<intakeTasks, decisions, submissions, operations, submit, torn, granted>>
         \/ IntakeDies
  BY DEF ReplyThrows, GatewayDies, GatewayDeath, IntakeDies
<1>3. IntakeInv'
  BY <1>1, <1>2, IntakeGoesOn
<1>4. GatewayTyped' /\ BegunOnce'
  BY <1>1, <1>2 DEF GatewayTyped, BegunOnce
<1>5. TriedIsSettled'
  BY <1>1, <1>2 DEF TriedIsSettled, Settled, AtWork
<1> QED BY <1>3, <1>4, <1>5 DEF GatewayInv

LEMMA MessageComes ==
  ASSUME GatewayInv, NEW m \in UNION Range(Written), MessageWritten(m)
  PROVE  GatewayInv'
<1> DEFINE n == Len(written) + 1
<1>1. IntakeInv /\ GatewayTyped /\ BegunOnce /\ TriedIsSettled
  BY DEF GatewayInv
<1>2. /\ n \in Updates /\ m \in Written[n] /\ written' = Append(written, m)
      /\ UNCHANGED <<bot, confirmed, tried, batch, handler, effects, refused, handled, chosen, cached,
                     intakeTasks, decisions, submissions, operations, submit, torn, granted, intakeDeaths>>
  BY DEF MessageWritten, intakeVars
<1>3. m \in TelegramMessage /\ written \in Seq(TelegramMessage) /\ Len(written) \in Nat
  BY <1>1, <1>2, GatewayBounds DEF GatewayTyped
<1>4. /\ written' \in Seq(TelegramMessage) /\ Len(written') = n /\ written'[n] = m
      /\ \A v \in 1 .. Len(written) : written'[v] = written[v] /\ v \in 1 .. n
      /\ \A v \in 1 .. n : v \in 1 .. Len(written) \/ v = n
  BY <1>2, <1>3
<1>5. IntakeInv'
  BY <1>1, <1>2, IntakeGoesOn
<1>6. n = Len(written) + 1
  OBVIOUS
<1> HIDE DEF n
<1>7. GatewayTyped' /\ BegunOnce'
  BY <1>1, <1>2, <1>3, <1>4, <1>6 DEF GatewayTyped, BegunOnce
<1>8. TriedIsSettled'
  BY <1>1, <1>2, <1>3, <1>4, <1>6 DEF TriedIsSettled, Settled, AtWork
<1> QED BY <1>5, <1>7, <1>8 DEF GatewayInv

LEMMA GatewayInvariant == TelegramSpec => []GatewayInv
<1>1. ASSUME GatewayInv, [TelegramNext]_telegramVars PROVE GatewayInv'
  <2>1. CASE UNCHANGED telegramVars
    <3>1. UNCHANGED <<intakeTasks, decisions, submissions, operations, submit, torn, granted>>
      BY <2>1 DEF telegramVars, intakeVars
    <3>2. IntakeInv'
      BY <1>1, <3>1, IntakeGoesOn DEF GatewayInv
    <3> QED BY <1>1, <2>1, <3>2
        DEF GatewayInv, GatewayTyped, BegunOnce, TriedIsSettled, Settled, AtWork, telegramVars, botVars, intakeVars
  <2>2. CASE TelegramNext
    BY <1>1, <2>2, GatewayHandles, GatewayAwaits, GatewayReplies, GatewayEnds, MessageComes DEF TelegramNext
  <2> QED BY <1>1, <2>1, <2>2
<1> QED BY <1>1, GatewayBegins, PTL DEF TelegramSpec

\* What the invariant need not know of a message, a handler and a count.
GatewayTypedToo ==
  /\ handler \in {"none", "awaiting", "acting", "replying"} /\ chosen \in ChatProjects
  /\ submitted \in 0 .. MaxSubmissions /\ intakeDeaths \in 0 .. MaxIntakeDeaths
  /\ written \in Seq(UNION Range(Written))

LEMMA DeathsCounted ==
  ASSUME GatewayTypedToo, GatewayDeath \/ IntakeDies
  PROVE  intakeDeaths' \in 0 .. MaxIntakeDeaths
BY GatewayBounds DEF GatewayTypedToo, GatewayDeath, IntakeDies

LEMMA HandlingTyped ==
  ASSUME GatewayInv, GatewayTypedToo, Handles
  PROVE  GatewayTypedToo'
<1> DEFINE m == written[tried']
<1>1. m \in TelegramMessage
  <2>1. tried \in Nat /\ tried < batch /\ batch <= Len(written) /\ written \in Seq(TelegramMessage)
        /\ batch \in Nat /\ tried' = tried + 1
    BY DEF Handles, GatewayInv, GatewayTyped
  <2> QED BY <2>1
<1>2. m.project # NoIntake => m.project \in ChatProjects
  BY <1>1 DEF TelegramMessage
<1> HIDE DEF m
<1>3. \/ Denied(m) \/ Unparsed(m) \/ Queried(m) \/ WorkSubmitted(m) \/ Previewed(m)
      \/ FollowedUp(m) \/ Changed(m) \/ ReviewAwaited(m) \/ Talked(m) \/ ActionTaken(m)
  BY DEF Handles, m
<1>4. handler' \in {"none", "awaiting", "acting", "replying"} /\ chosen' \in ChatProjects
  BY <1>2, <1>3 DEF GatewayTypedToo, Denied, Unparsed, Queried, WorkSubmitted, Previewed, FollowedUp,
     Changed, ReviewAwaited, Talked, ActionTaken, HandlerBecomes
<1>5. intakeDeaths' = intakeDeaths
  BY <1>3 DEF Denied, Unparsed, Queried, WorkSubmitted, Previewed, FollowedUp, Changed, ReviewAwaited,
     Talked, ActionTaken, intakeVars, SubmitsAgain, Submits, Previews, CreatesDirectly
<1> QED BY <1>4, <1>5 DEF GatewayTypedToo, Handles

LEMMA GatewayTypesKept ==
  ASSUME GatewayInv, GatewayTypedToo, [TelegramNext]_telegramVars
  PROVE  GatewayTypedToo'
<1>1. CASE Handles
  BY <1>1, HandlingTyped
<1>2. CASE Awaited \/ Replied \/ Polls \/ BotStarts \/ UNCHANGED telegramVars
  BY <1>2 DEF GatewayTypedToo, Awaited, Replied, Polls, BotStarts, HandlerBecomes, telegramVars, botVars,
     intakeVars
<1>3. CASE ReplyThrows \/ GatewayDies
  BY <1>3, DeathsCounted DEF GatewayTypedToo, ReplyThrows, GatewayDies
<1>4. CASE DashboardSubmits
  <2>1. intakeDeaths' = intakeDeaths
    BY <1>4, Zenon DEF DashboardSubmits, SubmitsAgain, Submits, Previews, CreatesDirectly
  <2>2. UNCHANGED <<handler, chosen, written>> /\ submitted < MaxSubmissions /\ submitted' = submitted + 1
    BY <1>4 DEF DashboardSubmits, botVars
  <2>3. submitted' \in 0 .. MaxSubmissions
    BY <2>2, GatewayBounds DEF GatewayTypedToo
  <2> QED BY <2>1, <2>2, <2>3 DEF GatewayTypedToo
<1>5. ASSUME NEW m \in UNION Range(Written), MessageWritten(m) PROVE GatewayTypedToo'
  BY <1>5 DEF GatewayTypedToo, MessageWritten, intakeVars
<1>6. CASE SubmitGoesOn /\ UNCHANGED <<botVars, submitted>>
  BY <1>6 DEF GatewayTypedToo, SubmitGoesOn, botVars, TaskRow, ApprovalRow, PlanRow, PlanRefused,
     SubmissionRow
<1> QED BY <1>1, <1>2, <1>3, <1>4, <1>5, <1>6 DEF TelegramNext

\* The tables of the intake, the bot and its handlers keep their types: what is confirmed,
\* tried and given are messages that were written.
THEOREM GatewayTypeCorrect == TelegramSpec => []TelegramTypeOK
<1>1. TelegramInit => GatewayTypedToo
  <2>1. << >> \in Seq(UNION Range(Written))
    OBVIOUS
  <2> QED BY <2>1, GatewayBounds DEF TelegramInit, TelegramStarts, IntakeInit, GatewayTypedToo
<1>2. GatewayInv /\ GatewayTypedToo => TelegramTypeOK
  <2> SUFFICES ASSUME GatewayInv, GatewayTypedToo PROVE TelegramTypeOK
    OBVIOUS
  <2>1. IntakeTypeOK
    BY DEF GatewayInv, GatewayTypedToo, IntakeInv, IntakeTyped, IntakeTypeOK, IntakeTask, SubmitRow
  <2>2. {confirmed, tried, batch} \subseteq Updates \cup {0}
    <3>1. /\ confirmed \in Nat /\ tried \in Nat /\ batch \in Nat /\ Len(written) \in Updates \cup {0}
          /\ confirmed <= tried /\ tried <= batch /\ batch <= Len(written)
      BY DEF GatewayInv, GatewayTyped
    <3>2. \A n \in Nat : n <= Len(written) => n \in Updates \cup {0}
      BY <3>1, GatewayBounds
    <3>3. Len(written) \in Nat /\ confirmed <= Len(written) /\ tried <= Len(written)
      BY <3>1, GatewayBounds
    <3> QED BY <3>1, <3>2, <3>3
  <2> QED BY <2>1, <2>2 DEF GatewayInv, GatewayTyped, GatewayTypedToo, TelegramTypeOK
<1> QED BY <1>1, <1>2, GatewayTypesKept, GatewayInvariant, GatewayBegins, PTL DEF TelegramSpec

\* However often a request is submitted, by whatever way, and wherever a submission is torn or the
\* program dies: it gets one Task and one more for each torn submission, its record names a Task,
\* a plan and an approval that belong together; and a message Telegram has forgotten was applied
\* or refused, a stranger's changed nothing, a repeated one only follows a death, and the cache
\* of the project is what was selected last (submitWorkIntake, the handlers and the polling of
\* the Telegram bot).
THEOREM RequestsAreSoundHolds == TelegramSpec => []RequestsAreSound
<1>1. GatewayInv => RequestsAreSound
  <2> SUFFICES ASSUME GatewayInv PROVE RequestsAreSound
    OBVIOUS
  <2>1. SubmissionIsSound
    BY IntakeIsSound DEF GatewayInv
  <2>2. GatewayTyped /\ BegunOnce /\ TriedIsSettled
    BY DEF GatewayInv
  <2>3. \A u \in 1 .. confirmed : effects[u] > 0 \/ u \in refused
    BY <2>2 DEF TriedIsSettled, Settled
  <2>4. \A u \in 1 .. Len(written) : /\ effects[u] > 0 => Allowed(written[u])
                                     /\ handled[u] <= 1 + intakeDeaths
    BY <2>2 DEF TriedIsSettled, BegunOnce, GatewayTyped
  <2> QED BY <2>1, <2>2, <2>3, <2>4 DEF RequestsAreSound, MessagesAreKept, GatewayTyped
<1> QED BY <1>1, GatewayInvariant, PTL

-----------------------------------------------------------------------------
\* OperationalChat.  What a turn did, and who did it, is forgotten when the turn ends; and an
\* approval in flight is the only one of its command.

TurnRow ==
  [at : {"unsent", "gathering", "commanding", "acting", "acquiring", "thinking", "looking", "running",
         "tool", "ended"},
   mode : AccessModes, message : Messages, selected : Talkers \cup {NoTalker}, aborted : BOOLEAN,
   provider : Talkers \cup {NoTalker}, excluded : SUBSET (Talkers \cup {NoTalker}), iterations : Nat,
   toolCalls : Nat, committed : BOOLEAN, told : BOOLEAN, by : Talkers \cup {NoTalker}]
ActRow == [at : {"none", "checking", "approved", "sizing", "reporting", "ended"},
           does : Governed \cup Asks, ok : BOOLEAN]

ChatTyped ==
  /\ turn \in [Asks -> TurnRow] /\ act \in [Asks \cup Clicks -> ActRow]
  /\ pending \in [Asks -> {"none", "waiting", "approved", "expired"}] /\ executed \in [Asks -> Nat]

\* Whoever reported an effect in the turn t still has its lease.
TurnSound(t) ==
  t.by # NoTalker => t.committed /\ t.provider = t.by /\ t.at \in {"thinking", "looking", "running", "tool"}

ApprovalOf(x, a) == act[x].at = "approved" /\ act[x].does = a
InFlight == {"checking", "sizing", "reporting"}
ActSound(x) ==
  /\ x \in Asks /\ act[x].at \in InFlight => turn[x].at \in {"acting", "tool"}
  /\ act[x].at = "approved" => x \in Clicks /\ act[x].does \in Asks
CommandSound(a) ==
  /\ turn[a].at \in {"unsent", "gathering"} => executed[a] = 0 /\ pending[a] = "none"
  /\ executed[a] <= 1
  /\ pending[a] = "none" /\ executed[a] = 1 => turn[a].mode # "approval"
  /\ pending[a] \in {"waiting", "expired"} => executed[a] = 0
  /\ \A x \in Asks \cup Clicks : ApprovalOf(x, a) => pending[a] = "approved" /\ executed[a] = 0
  /\ \A x, y \in Asks \cup Clicks : ApprovalOf(x, a) /\ ApprovalOf(y, a) => x = y

ChatInv ==
  /\ ChatTyped
  /\ \A a \in Asks : TurnSound(turn[a]) /\ CommandSound(a)
  /\ \A x \in Asks \cup Clicks : ActSound(x)

-----------------------------------------------------------------------------
\* The turn as a value.

LEMMA UnsentRow == Unsent \in TurnRow /\ Unsent.at = "unsent" /\ Unsent.by = NoTalker
BY DEF Unsent, TurnRow, AccessModes, Messages

LEMMA EndedRow ==
  ASSUME NEW t \in TurnRow
  PROVE  Ended(t) \in TurnRow /\ Ended(t).at = "ended" /\ Ended(t).mode = t.mode /\ Ended(t).by = NoTalker
<1>1. t.mode \in AccessModes
  BY DEF TurnRow
<1> QED BY <1>1 DEF Ended, Unsent, TurnRow, Messages

\* t goes on without a provider's effect, or is over.
GoesOnFrom(t, u) ==
  /\ u \in TurnRow /\ u.mode = t.mode /\ u.at \notin {"unsent", "gathering", "acting", "tool"}
  /\ TurnSound(u)

LEMMA TurnEnds ==
  ASSUME NEW t \in TurnRow
  PROVE  GoesOnFrom(t, Ended(t))
BY EndedRow DEF GoesOnFrom, TurnSound

LEMMA TurnConverses ==
  ASSUME NEW t \in TurnRow, t.by = NoTalker
  PROVE  GoesOnFrom(t, Converses(t))
<1> DEFINE u == [t EXCEPT !.at = "acquiring", !.message = "talk"]
<1>1. u \in TurnRow /\ u.mode = t.mode /\ u.at = "acquiring" /\ u.by = t.by
  BY DEF TurnRow, Messages
<1>2. Converses(t) \in {Ended(t), u}
  BY DEF Converses
<1> HIDE DEF u
<1> QED BY <1>1, <1>2, TurnEnds DEF GoesOnFrom, TurnSound

LEMMA TurnIterates ==
  ASSUME NEW t \in TurnRow, t.by # NoTalker => t.committed /\ t.provider = t.by
  PROVE  GoesOnFrom(t, Iterates(t))
<1> DEFINE u == [t EXCEPT !.at = "thinking", !.iterations = @ + 1]
<1>1. u \in TurnRow /\ u.mode = t.mode /\ u.at = "thinking" /\ u.by = t.by /\ u.committed = t.committed
      /\ u.provider = t.provider
  <2>1. t.iterations + 1 \in Nat
    BY DEF TurnRow
  <2> DEFINE n == t.iterations + 1
             w == [t EXCEPT !.at = "thinking", !.iterations = n]
  <2>2. u = w
    OBVIOUS
  <2> HIDE DEF n
  <2>3. w \in TurnRow /\ w.mode = t.mode /\ w.at = "thinking" /\ w.by = t.by
    BY <2>1 DEF TurnRow, n
  <2>4. w.committed = t.committed /\ w.provider = t.provider
    BY DEF TurnRow
  <2> HIDE DEF w
  <2> QED BY <2>2, <2>3, <2>4
<1>2. Iterates(t) \in {Ended(t), u}
  BY DEF Iterates
<1> HIDE DEF u
<1> QED BY <1>1, <1>2, TurnEnds DEF GoesOnFrom, TurnSound

LEMMA TurnReturns ==
  ASSUME NEW t \in TurnRow, NEW committed \in BOOLEAN, t.by # NoTalker => t.committed /\ t.provider = t.by
  PROVE  GoesOnFrom(t, ToolReturned(t, committed))
<1>1. CASE committed
  <2> DEFINE u == [t EXCEPT !.committed = TRUE, !.by = t.provider]
  <2>1. u \in TurnRow /\ u.mode = t.mode /\ u.provider = t.provider /\ u.committed /\ u.by = t.provider
    BY DEF TurnRow
  <2>2. ToolReturned(t, committed) = Iterates(u)
    BY <1>1 DEF ToolReturned
  <2> HIDE DEF u
  <2> QED BY <2>1, <2>2, TurnIterates DEF GoesOnFrom
<1>2. CASE ~committed
  <2> DEFINE u == [t EXCEPT !.committed = @ \/ committed, !.by = IF committed THEN t.provider ELSE @]
  <2>1. u = [t EXCEPT !.committed = t.committed, !.by = t.by]
    BY <1>2 DEF TurnRow
  <2>2. u = t
    BY <2>1 DEF TurnRow
  <2>3. ToolReturned(t, committed) = Iterates(u)
    BY DEF ToolReturned
  <2> HIDE DEF u
  <2> QED BY <2>2, <2>3, TurnIterates
<1> QED BY <1>1, <1>2

LEMMA TurnFails ==
  ASSUME NEW t \in TurnRow, t.by # NoTalker => t.committed
  PROVE  GoesOnFrom(t, ProviderFailed(t))
<1>1. CASE t.committed \/ t.selected # NoTalker
  BY <1>1, TurnEnds DEF ProviderFailed
<1>2. CASE ~(t.committed \/ t.selected # NoTalker)
  <2> DEFINE u == [t EXCEPT !.provider = NoTalker, !.excluded = @ \cup {t.provider},
                            !.iterations = 0, !.toolCalls = 0]
  <2>1. u \in TurnRow /\ u.mode = t.mode /\ u.by = t.by
    BY DEF TurnRow
  <2>2. ProviderFailed(t) = Converses(u)
    BY <1>2 DEF ProviderFailed
  <2> HIDE DEF u
  <2> QED BY <1>2, <2>1, <2>2, TurnConverses DEF GoesOnFrom
<1> QED BY <1>1, <1>2

-----------------------------------------------------------------------------
\* A step of the turn of the message a, and of the action its tool or command awaits.
LEMMA TurnStep ==
  ASSUME ChatInv, ChatTyped', NEW a \in Asks,
         \A b \in Asks \ {a} : turn'[b] = turn[b] /\ pending'[b] = pending[b] /\ executed'[b] = executed[b],
         \A x \in (Asks \cup Clicks) \ {a} : act'[x] = act[x],
         TurnSound(turn'[a]), act'[a].at # "approved", act'[a].at \in InFlight => turn'[a].at \in {"acting", "tool"},
         executed'[a] <= 1,
         turn'[a].at \in {"unsent", "gathering"} => executed'[a] = 0 /\ pending'[a] = "none",
         pending'[a] = "none" /\ executed'[a] = 1 => turn'[a].mode # "approval",
         pending'[a] \in {"waiting", "expired"} => executed'[a] = 0,
         UNCHANGED <<pending, executed>> \/ pending[a] = "none"
  PROVE  ChatInv'
<1>1. a \notin Clicks /\ ActSound(a) /\ CommandSound(a)
  BY ChatBounds DEF ChatInv
<1>2. act[a].at # "approved"
  BY <1>1 DEF ActSound
<1>3. ASSUME NEW x \in Asks \cup Clicks, NEW b PROVE ApprovalOf(x, b)' = ApprovalOf(x, b)
  BY <1>2 DEF ApprovalOf
<1>4. ASSUME NEW b \in Asks \ {a} PROVE TurnSound(turn[b])' /\ CommandSound(b)'
  <2>1. TurnSound(turn[b]) /\ CommandSound(b)
    BY DEF ChatInv
  <2> QED BY <1>3, <2>1 DEF TurnSound, CommandSound
<1>5. CommandSound(a)'
  BY <1>1, <1>3 DEF CommandSound
<1>6. ASSUME NEW x \in (Asks \cup Clicks) \ {a} PROVE ActSound(x)'
  <2>1. ActSound(x)
    BY DEF ChatInv
  <2> QED BY <2>1 DEF ActSound
<1>7. ActSound(a)'
  BY DEF ActSound
<1>8. TurnSound(turn[a])'
  BY DEF TurnSound
<1> QED BY <1>4, <1>5, <1>6, <1>7, <1>8 DEF ChatInv

\* The turn goes on, and no action is awaited.
LEMMA TurnGoes ==
  ASSUME ChatInv, NEW a \in Asks, NEW t, GoesOnFrom(turn[a], t), turn' = [turn EXCEPT ![a] = t],
         turn[a].at \notin {"acting", "tool"} \/ act'[a].at \notin InFlight, 
         act' = act \/ (act' = [act EXCEPT ![a] = NoAct] /\ act[a].at \in InFlight),
         turn[a].at # "unsent", UNCHANGED <<pending, executed>>
  PROVE  ChatInv'
<1>1. turn \in [Asks -> TurnRow] /\ act \in [Asks \cup Clicks -> ActRow] /\ t \in TurnRow
  BY DEF ChatInv, ChatTyped, GoesOnFrom
<1>2. turn' \in [Asks -> TurnRow] /\ turn'[a] = t /\ \A b \in Asks \ {a} : turn'[b] = turn[b]
  BY <1>1
<1>3. NoAct \in ActRow /\ NoAct.at = "none"
  BY DEF NoAct, ActRow, Governed
<1>4. act' \in [Asks \cup Clicks -> ActRow] /\ \A x \in (Asks \cup Clicks) \ {a} : act'[x] = act[x]
  BY <1>1, <1>3
<1>5. ChatTyped'
  BY <1>2, <1>4 DEF ChatInv, ChatTyped
<1>6. ActSound(a) /\ CommandSound(a) /\ a \notin Clicks
  BY ChatBounds DEF ChatInv
<1>7. act'[a].at # "approved" /\ act'[a].at \notin InFlight
  BY <1>1, <1>3, <1>4, <1>6 DEF ActSound, InFlight
<1>8. TurnSound(turn'[a]) /\ turn'[a].mode = turn[a].mode /\ turn'[a].at \notin {"unsent", "gathering"}
  BY <1>2 DEF GoesOnFrom
<1> QED BY <1>2, <1>4, <1>5, <1>6, <1>7, <1>8, TurnStep DEF CommandSound

LEMMA MessageIsSent == ASSUME ChatInv, NEW a \in Asks, AskSent(a) PROVE ChatInv'
<1> PICK m \in Sent[a] :
         turn' = [turn EXCEPT ![a] = [Unsent EXCEPT !.at = "gathering", !.mode = m.mode,
                                      !.message = m.message, !.selected = m.selected]]
  BY DEF AskSent
<1> DEFINE t == [Unsent EXCEPT !.at = "gathering", !.mode = m.mode, !.message = m.message, !.selected = m.selected]
<1>1. m \in [mode : AccessModes, message : Messages, selected : Talkers \cup {NoTalker}]
  BY ChatBounds
<1>2. t \in TurnRow /\ t.at = "gathering" /\ t.by = NoTalker
  BY <1>1, UnsentRow DEF TurnRow
<1>3. turn' = [turn EXCEPT ![a] = t]
  OBVIOUS
<1> HIDE DEF t
<1>4. turn \in [Asks -> TurnRow] /\ CommandSound(a) /\ ActSound(a) /\ turn[a].at = "unsent" /\ a \notin Clicks
  BY ChatBounds DEF ChatInv, ChatTyped, AskSent
<1>5. UNCHANGED <<act, pending, executed>>
  BY DEF AskSent
<1>6. turn' \in [Asks -> TurnRow] /\ turn'[a] = t /\ \A b \in Asks \ {a} : turn'[b] = turn[b]
  BY <1>2, <1>3, <1>4
<1>7. ChatTyped'
  BY <1>5, <1>6 DEF ChatInv, ChatTyped
<1>8. act[a].at # "approved" /\ act[a].at \notin InFlight
  BY <1>4 DEF ActSound
<1>9. executed[a] = 0 /\ pending[a] = "none"
  BY <1>4 DEF CommandSound
<1>10. executed' = executed /\ pending' = pending /\ act' = act
  BY <1>5
<1>11. TurnSound(turn'[a])
  BY <1>2, <1>6 DEF TurnSound
<1>12. executed'[a] = 0 /\ pending'[a] = "none"
  BY <1>9, <1>10
<1> QED BY <1>2, <1>5, <1>6, <1>7, <1>8, <1>11, <1>12, TurnStep

\* An action is executed for the turn, and its answer awaited.
LEMMA ActionBegins ==
  ASSUME ChatInv, NEW a \in Asks, NEW t \in TurnRow, t.mode = turn[a].mode, t.at \in {"acting", "tool"},
         TurnSound(t), TurnBecomes(a, t), turn[a].at # "unsent",
         NEW action \in Governed, act' = [act EXCEPT ![a] = Checking(action)], UNCHANGED <<pending, executed>>
  PROVE  ChatInv'
<1>1. turn \in [Asks -> TurnRow] /\ act \in [Asks \cup Clicks -> ActRow]
  BY DEF ChatInv, ChatTyped
<1>2. turn' \in [Asks -> TurnRow] /\ turn'[a] = t /\ \A b \in Asks \ {a} : turn'[b] = turn[b]
  BY <1>1 DEF TurnBecomes
<1>3. Checking(action) \in ActRow /\ Checking(action).at = "checking"
  BY DEF Checking, ActRow
<1>4. act' \in [Asks \cup Clicks -> ActRow] /\ act'[a].at = "checking"
      /\ \A x \in (Asks \cup Clicks) \ {a} : act'[x] = act[x]
  BY <1>1, <1>3
<1>5. ChatTyped'
  BY <1>2, <1>4 DEF ChatInv, ChatTyped
<1>6. CommandSound(a)
  BY DEF ChatInv
<1>7. TurnSound(turn'[a]) /\ turn'[a].mode = turn[a].mode /\ turn'[a].at \in {"acting", "tool"}
  BY <1>2
<1>8. executed'[a] <= 1 /\ (pending'[a] = "none" /\ executed'[a] = 1 => turn'[a].mode # "approval")
      /\ (pending'[a] \in {"waiting", "expired"} => executed'[a] = 0)
  BY <1>6, <1>7 DEF CommandSound
<1> QED BY <1>2, <1>4, <1>5, <1>7, <1>8, TurnStep

\* The turn takes a step to another await of its own.
LEMMA TurnAwaits ==
  ASSUME NEW t \in TurnRow, TurnSound(t),
         NEW at \in {"commanding", "looking", "running"}, at = "commanding" => t.by = NoTalker
  PROVE  GoesOnFrom(t, [t EXCEPT !.at = at])
<1> DEFINE u == [t EXCEPT !.at = at]
<1>1. u \in TurnRow /\ u.mode = t.mode /\ u.at = at /\ u.by = t.by
  BY DEF TurnRow
<1>2. u.committed = t.committed /\ u.provider = t.provider
  BY DEF TurnRow
<1> HIDE DEF u
<1>3. TurnSound(u)
  BY <1>1, <1>2 DEF TurnSound
<1>4. GoesOnFrom(t, u)
  BY <1>1, <1>3 DEF GoesOnFrom
<1> QED BY <1>4 DEF u

LEMMA EvidenceComes == ASSUME ChatInv, NEW a \in Asks, Gathered(a) PROVE ChatInv'
<1> DEFINE t == turn[a]
<1>1. t \in TurnRow /\ t.at = "gathering" /\ TurnSound(t) /\ CommandSound(a) /\ ActSound(a)
      /\ turn \in [Asks -> TurnRow] /\ pending \in [Asks -> {"none", "waiting", "approved", "expired"}]
      /\ executed \in [Asks -> Nat]
  BY DEF Gathered, ChatInv, ChatTyped
<1>2. t.by = NoTalker /\ executed[a] = 0 /\ pending[a] = "none"
  BY <1>1 DEF TurnSound, CommandSound
<1>3. act[a].at # "approved" /\ act[a].at \notin InFlight
  BY <1>1, ChatBounds DEF ActSound
<1>4. GoesOnFrom(t, Converses(t)) /\ GoesOnFrom(t, [t EXCEPT !.at = "commanding"])
  BY <1>1, <1>2, TurnConverses, TurnAwaits
<1>5. CASE /\ t.mode \in {"approval", "standard", "full"}
           /\ \/ t.mode = "approval" /\ pending' = [pending EXCEPT ![a] = "waiting"]
                 /\ TurnBecomes(a, Converses(t)) /\ UNCHANGED <<act, executed>>
              \/ t.mode # "approval" /\ executed' = [executed EXCEPT ![a] = @ + 1]
                 /\ TurnBecomes(a, [t EXCEPT !.at = "commanding"]) /\ UNCHANGED <<act, pending>>
  <2>1. PICK u : GoesOnFrom(t, u) /\ TurnBecomes(a, u)
    BY <1>4, <1>5
  <2>2. turn' \in [Asks -> TurnRow] /\ turn'[a] = u /\ \A b \in Asks \ {a} : turn'[b] = turn[b]
    BY <1>1, <2>1 DEF TurnBecomes, GoesOnFrom
  <2>3. /\ pending' \in [Asks -> {"none", "waiting", "approved", "expired"}] /\ executed' \in [Asks -> Nat]
        /\ \A b \in Asks \ {a} : pending'[b] = pending[b] /\ executed'[b] = executed[b]
        /\ \/ t.mode = "approval" /\ pending'[a] = "waiting" /\ executed'[a] = 0
           \/ t.mode # "approval" /\ pending'[a] = "none" /\ executed'[a] = 1
        /\ UNCHANGED act
    BY <1>1, <1>2, <1>5
  <2>4. ChatTyped'
    BY <2>2, <2>3 DEF ChatInv, ChatTyped
  <2>5. TurnSound(turn'[a]) /\ turn'[a].mode = t.mode /\ turn'[a].at \notin {"unsent", "gathering"}
    BY <2>1, <2>2 DEF GoesOnFrom
  <2>6. executed'[a] <= 1 /\ (pending'[a] = "none" /\ executed'[a] = 1 => turn'[a].mode # "approval")
        /\ (pending'[a] \in {"waiting", "expired"} => executed'[a] = 0)
    BY <2>3, <2>5
  <2> QED BY <1>2, <1>3, <2>2, <2>3, <2>4, <2>5, <2>6, TurnStep
<1>6. CASE act' = [act EXCEPT ![a] = Checking("other")] /\ TurnBecomes(a, [t EXCEPT !.at = "acting"])
           /\ UNCHANGED <<pending, executed>>
  <2> DEFINE u == [t EXCEPT !.at = "acting"]
  <2>1. u \in TurnRow /\ u.mode = t.mode /\ u.at = "acting" /\ u.by = NoTalker
    BY <1>1, <1>2 DEF TurnRow
  <2> HIDE DEF u
  <2>2. TurnSound(u) /\ "other" \in Governed
    BY <2>1 DEF TurnSound, Governed
  <2>3. TurnBecomes(a, u)
    BY <1>6 DEF u
  <2> QED BY <1>1, <1>6, <2>1, <2>2, <2>3, ActionBegins
<1>7. CASE TurnBecomes(a, [t EXCEPT !.at = "commanding"]) /\ UNCHANGED <<act, pending, executed>>
  BY <1>1, <1>3, <1>4, <1>7, TurnGoes DEF TurnBecomes
<1>8. CASE TurnBecomes(a, Converses(t)) /\ UNCHANGED <<act, pending, executed>>
  BY <1>1, <1>3, <1>4, <1>8, TurnGoes DEF TurnBecomes
<1> QED BY <1>5, <1>6, <1>7, <1>8 DEF Gathered

LEMMA TurnMoves ==
  ASSUME ChatInv, NEW a \in Asks,
         Commanded(a) \/ Acquired(a) \/ SelectedAcquired(a) \/ Thought(a) \/ ToolEnds(a) \/ CancelChat(a)
  PROVE  ChatInv'
<1> DEFINE t == turn[a]
<1>1. t \in TurnRow /\ TurnSound(t) /\ ActSound(a) /\ turn \in [Asks -> TurnRow]
  BY DEF ChatInv, ChatTyped
<1>2. t.by # NoTalker => t.committed /\ t.provider = t.by
  BY <1>1 DEF TurnSound
<1>3. ASSUME t.at \notin {"unsent", "acting", "tool"}, NEW u, GoesOnFrom(t, u),
             TurnBecomes(a, u) \/ turn' = [turn EXCEPT ![a] = u], UNCHANGED <<act, pending, executed>>
      PROVE  ChatInv'
  BY <1>3, TurnGoes DEF TurnBecomes
<1>4. CASE Commanded(a)
  <2>1. t.at = "commanding" /\ TurnBecomes(a, Converses(t)) /\ UNCHANGED <<act, pending, executed>>
    BY <1>4 DEF Commanded
  <2>2. t.by = NoTalker
    BY <1>1, <2>1 DEF TurnSound
  <2> QED BY <1>1, <1>3, <2>1, <2>2, TurnConverses
<1>5. CASE Acquired(a) \/ SelectedAcquired(a)
  <2>1. t.at = "acquiring" /\ UNCHANGED <<act, pending, executed>>
        /\ \/ TurnBecomes(a, Ended(t)) \/ turn' = [turn EXCEPT ![a] = Ended(t)]
           \/ \E p \in Talkers : turn' = [turn EXCEPT ![a] = Iterates([t EXCEPT !.provider = p])]
    <3>1. t.selected \in Talkers \cup {NoTalker}
      BY <1>1 DEF TurnRow
    <3> QED BY <1>5, <3>1 DEF Acquired, SelectedAcquired, Takes
  <2>2. t.by = NoTalker
    BY <1>1, <2>1 DEF TurnSound
  <2>3. CASE TurnBecomes(a, Ended(t)) \/ turn' = [turn EXCEPT ![a] = Ended(t)]
    BY <1>1, <1>3, <2>1, <2>3, TurnEnds
  <2>4. ASSUME NEW p \in Talkers, turn' = [turn EXCEPT ![a] = Iterates([t EXCEPT !.provider = p])]
        PROVE  ChatInv'
    <3> DEFINE u == [t EXCEPT !.provider = p]
    <3>1. u \in TurnRow /\ u.mode = t.mode /\ u.by = NoTalker
      BY <1>1, <2>2 DEF TurnRow
    <3>2. turn' = [turn EXCEPT ![a] = Iterates(u)]
      BY <2>4
    <3> HIDE DEF u
    <3>3. GoesOnFrom(t, Iterates(u))
      BY <3>1, TurnIterates DEF GoesOnFrom
    <3> QED BY <1>3, <2>1, <3>2, <3>3
  <2> QED BY <2>1, <2>3, <2>4
<1>6. CASE Thought(a)
  <2>1. t.at = "thinking" /\ UNCHANGED <<act, pending, executed>>
        /\ (TurnBecomes(a, Ended(t)) \/ TurnBecomes(a, Iterates(t)) \/ TurnBecomes(a, ProviderFailed(t)))
    BY <1>6 DEF Thought
  <2> QED BY <1>1, <1>2, <1>3, <2>1, TurnEnds, TurnIterates, TurnFails
<1>7. CASE ToolEnds(a)
  <2>1. UNCHANGED <<act, pending, executed>>
        /\ \/ t.at = "looking" /\ TurnBecomes(a, ToolReturned([t EXCEPT !.told = FALSE], FALSE))
           \/ t.at = "running" /\ \E committed \in BOOLEAN : TurnBecomes(a, ToolReturned(t, committed))
    BY <1>7 DEF ToolEnds
  <2>2. CASE t.at = "running" /\ \E committed \in BOOLEAN : TurnBecomes(a, ToolReturned(t, committed))
    BY <1>1, <1>2, <1>3, <2>1, <2>2, TurnReturns
  <2>3. CASE t.at = "looking" /\ TurnBecomes(a, ToolReturned([t EXCEPT !.told = FALSE], FALSE))
    <3> DEFINE u == [t EXCEPT !.told = FALSE]
    <3>1. u \in TurnRow /\ u.mode = t.mode /\ u.by = t.by
      BY <1>1 DEF TurnRow
    <3>2. u.committed = t.committed /\ u.provider = t.provider
      BY <1>1 DEF TurnRow
    <3>3. TurnBecomes(a, ToolReturned(u, FALSE))
      BY <2>3
    <3> HIDE DEF u
    <3>4. GoesOnFrom(u, ToolReturned(u, FALSE))
      BY <1>2, <3>1, <3>2, TurnReturns
    <3>5. GoesOnFrom(t, ToolReturned(u, FALSE))
      BY <3>1, <3>4 DEF GoesOnFrom
    <3> QED BY <1>3, <2>1, <2>3, <3>3, <3>5
  <2> QED BY <2>1, <2>2, <2>3
<1>8. CASE CancelChat(a)
  <2> DEFINE u == [t EXCEPT !.aborted = TRUE]
  <2>1. u \in TurnRow /\ u.mode = t.mode /\ u.by = t.by /\ u.at = t.at
    BY <1>1 DEF TurnRow
  <2>2. u.committed = t.committed /\ u.provider = t.provider
    BY <1>1 DEF TurnRow
  <2>3. turn' = [turn EXCEPT ![a] = u] /\ UNCHANGED <<act, pending, executed>>
    BY <1>8 DEF CancelChat
  <2> HIDE DEF u
  <2>4. turn' \in [Asks -> TurnRow] /\ turn'[a] = u /\ \A b \in Asks \ {a} : turn'[b] = turn[b]
    BY <1>1, <2>1, <2>3
  <2>5. ChatTyped'
    BY <2>3, <2>4 DEF ChatInv, ChatTyped
  <2>6. act[a].at # "approved" /\ (act[a].at \in InFlight => t.at \in {"acting", "tool"}) /\ CommandSound(a)
    BY <1>1, ChatBounds DEF ActSound, ChatInv
  <2>7. TurnSound(turn'[a]) /\ turn'[a].mode = t.mode /\ turn'[a].at = t.at
    BY <1>1, <2>1, <2>2, <2>4 DEF TurnSound
  <2> QED BY <2>3, <2>4, <2>5, <2>6, <2>7, TurnStep DEF CommandSound
<1> QED BY <1>4, <1>5, <1>6, <1>7, <1>8

LEMMA ToolBegins == ASSUME ChatInv, NEW a \in Asks, ToolCalled(a) PROVE ChatInv'
<1> DEFINE t == [turn[a] EXCEPT !.toolCalls = @ + 1]
<1>1. turn[a] \in TurnRow /\ TurnSound(turn[a]) /\ ActSound(a) /\ turn[a].at = "thinking"
  BY DEF ChatInv, ChatTyped, ToolCalled
<1>2. t \in TurnRow /\ t.mode = turn[a].mode /\ t.at = "thinking" /\ t.by = turn[a].by
      /\ t.committed = turn[a].committed /\ t.provider = turn[a].provider
  <2>1. turn[a].toolCalls + 1 \in Nat
    BY <1>1 DEF TurnRow
  <2> DEFINE n == turn[a].toolCalls + 1
             w == [turn[a] EXCEPT !.toolCalls = n]
  <2>2. t = w
    OBVIOUS
  <2>3. n \in Nat
    BY <2>1
  <2> HIDE DEF n
  <2>4. w \in TurnRow /\ w.mode = turn[a].mode /\ w.at = "thinking" /\ w.by = turn[a].by
    BY <1>1, <2>3 DEF TurnRow
  <2>5. w.committed = turn[a].committed /\ w.provider = turn[a].provider
    BY <1>1 DEF TurnRow
  <2> HIDE DEF w
  <2> QED BY <2>2, <2>4, <2>5
<1>3. /\ UNCHANGED <<pending, executed>>
      /\ \/ TurnBecomes(a, Ended(t)) /\ UNCHANGED act
         \/ \E at \in {"looking", "running"} : TurnBecomes(a, [t EXCEPT !.at = at]) /\ UNCHANGED act
         \/ \E action \in Governed : /\ TurnBecomes(a, [t EXCEPT !.at = "tool"])
                                     /\ act' = [act EXCEPT ![a] = Checking(action)]
         \/ TurnBecomes(a, ToolReturned(t, FALSE)) /\ UNCHANGED act
  BY DEF ToolCalled
<1> HIDE DEF t
<1>4. TurnSound(t) /\ (t.by # NoTalker => t.committed /\ t.provider = t.by)
  BY <1>1, <1>2 DEF TurnSound
<1>5. ASSUME NEW u, GoesOnFrom(t, u), TurnBecomes(a, u), UNCHANGED act PROVE ChatInv'
  <2>1. GoesOnFrom(turn[a], u) /\ turn' = [turn EXCEPT ![a] = u]
    BY <1>2, <1>5 DEF GoesOnFrom, TurnBecomes
  <2> QED BY <1>1, <1>3, <1>5, <2>1, TurnGoes
<1>6. CASE TurnBecomes(a, Ended(t)) /\ UNCHANGED act
  BY <1>2, <1>5, <1>6, TurnEnds
<1>7. ASSUME NEW at \in {"looking", "running"}, TurnBecomes(a, [t EXCEPT !.at = at]), UNCHANGED act PROVE ChatInv'
  <2>1. GoesOnFrom(t, [t EXCEPT !.at = at])
    BY <1>2, <1>4, TurnAwaits
  <2> QED BY <1>5, <1>7, <2>1
<1>8. CASE TurnBecomes(a, ToolReturned(t, FALSE)) /\ UNCHANGED act
  BY <1>2, <1>4, <1>5, <1>8, TurnReturns
<1>9. ASSUME NEW action \in Governed, TurnBecomes(a, [t EXCEPT !.at = "tool"]),
             act' = [act EXCEPT ![a] = Checking(action)]
      PROVE  ChatInv'
  <2> DEFINE u == [t EXCEPT !.at = "tool"]
  <2>1. u \in TurnRow /\ u.mode = turn[a].mode /\ u.at = "tool" /\ u.by = t.by
    BY <1>2 DEF TurnRow
  <2>2. u.committed = t.committed /\ u.provider = t.provider
    BY <1>2 DEF TurnRow
  <2>3. TurnBecomes(a, u)
    BY <1>9
  <2> HIDE DEF u
  <2>4. TurnSound(u)
    BY <1>4, <2>1, <2>2 DEF TurnSound
  <2> QED BY <1>1, <1>3, <1>9, <2>1, <2>3, <2>4, ActionBegins
<1> QED BY <1>3, <1>6, <1>7, <1>8, <1>9

\* A step of executeAction, of a click or of a turn that stays where it is.
LEMMA ActStep ==
  ASSUME ChatInv, NEW x \in Asks \cup Clicks, NEW row \in ActRow, act' = [act EXCEPT ![x] = row],
         row.at # "approved", act[x].at # "approved",
         row.at \in InFlight => x \notin Asks \/ act[x].at \in InFlight,
         UNCHANGED <<turn, pending, executed>>
  PROVE  ChatInv'
<1>1. act' \in [Asks \cup Clicks -> ActRow] /\ act'[x] = row
      /\ \A y \in (Asks \cup Clicks) \ {x} : act'[y] = act[y]
  BY DEF ChatInv, ChatTyped
<1>2. ChatTyped'
  BY <1>1 DEF ChatInv, ChatTyped
<1>3. ASSUME NEW y \in Asks \cup Clicks, NEW b PROVE ApprovalOf(y, b)' = ApprovalOf(y, b)
  BY <1>1 DEF ApprovalOf
<1>4. ASSUME NEW b \in Asks PROVE TurnSound(turn[b])' /\ CommandSound(b)'
  <2>1. TurnSound(turn[b]) /\ CommandSound(b)
    BY DEF ChatInv
  <2> QED BY <1>3, <2>1 DEF TurnSound, CommandSound
<1>5. ASSUME NEW y \in Asks \cup Clicks PROVE ActSound(y)'
  <2>1. ActSound(y)
    BY DEF ChatInv
  <2>2. CASE y = x
    BY <1>1, <2>1, <2>2 DEF ActSound
  <2>3. CASE y # x
    BY <1>1, <2>1, <2>3 DEF ActSound
  <2> QED BY <2>2, <2>3
<1> QED BY <1>2, <1>4, <1>5 DEF ChatInv

LEMMA ActRows ==
  /\ NoAct \in ActRow /\ NoAct.at = "none"
  /\ DoneAct \in ActRow /\ DoneAct.at = "ended"
  /\ \A action \in Governed : Checking(action) \in ActRow /\ Checking(action).at = "checking"
BY DEF NoAct, DoneAct, Checking, ActRow, Governed

LEMMA AnswerComes ==
  ASSUME ChatInv, NEW x \in Asks \cup Clicks, NEW ok \in BOOLEAN, Replies(x, ok), act[x].at \in InFlight,
         UNCHANGED <<pending, executed>>
  PROVE  ChatInv'
<1>1. CASE x \notin Asks
  BY <1>1, ActRows, ActStep DEF Replies, InFlight
<1>2. CASE x \in Asks
  <2> DEFINE t == [turn[x] EXCEPT !.told = @ \/ (ok /\ act[x].does = "create_task")]
  <2>1. turn[x] \in TurnRow /\ TurnSound(turn[x]) /\ turn[x].at \in {"acting", "tool"}
    BY <1>2 DEF ChatInv, ChatTyped, ActSound
  <2>2. t \in TurnRow /\ t.mode = turn[x].mode /\ t.at = turn[x].at /\ t.by = turn[x].by
    BY <2>1 DEF TurnRow
  <2>3. t.committed = turn[x].committed /\ t.provider = turn[x].provider
    BY <2>1 DEF TurnRow
  <2>4. act' = [act EXCEPT ![x] = NoAct] /\ TurnBecomes(x, Answered(t, ok))
    BY <1>2 DEF Replies
  <2> HIDE DEF t
  <2>5. (t.by # NoTalker => t.committed /\ t.provider = t.by) /\ (t.at = "acting" => t.by = NoTalker)
    BY <2>1, <2>2, <2>3 DEF TurnSound
  <2>6. GoesOnFrom(t, Answered(t, ok))
    <3>1. CASE t.at = "acting"
      BY <2>2, <2>5, <3>1, TurnEnds, TurnConverses DEF Answered
    <3>2. CASE t.at = "tool"
      <4>1. Answered(t, ok) = ToolReturned(t, ok)
        BY <3>2 DEF Answered
      <4> QED BY <2>2, <2>5, <4>1, TurnReturns
    <3> QED BY <2>1, <2>2, <3>1, <3>2
  <2>7. GoesOnFrom(turn[x], Answered(t, ok)) /\ turn' = [turn EXCEPT ![x] = Answered(t, ok)]
    BY <2>2, <2>4, <2>6 DEF GoesOnFrom, TurnBecomes
  <2>8. act'[x].at = "none"
    BY <1>2, <2>4, ActRows DEF ChatInv, ChatTyped
  <2>9. act'[x].at \notin InFlight
    BY <2>8 DEF InFlight
  <2> QED BY <1>2, <2>1, <2>4, <2>7, <2>9, TurnGoes
<1> QED BY <1>1, <1>2

LEMMA ActGoes == ASSUME ChatInv, NEW x \in Asks \cup Clicks, ActGoesOn(x) PROVE ChatInv'
<1>1. act[x] \in ActRow /\ UNCHANGED <<pending, executed>> /\ act[x].at \in InFlight /\ act[x].at # "approved"
  BY DEF ChatInv, ChatTyped, ActGoesOn, Checked, Sized, Reported, InFlight
<1>2. ASSUME NEW ok \in BOOLEAN, Replies(x, ok) PROVE ChatInv'
  BY <1>1, <1>2, AnswerComes
<1>3. ASSUME NEW ok \in BOOLEAN, NEW at \in {"sizing", "reporting"}, ActBecomes(x, at, ok), UNCHANGED turn
      PROVE  ChatInv'
  <2> DEFINE row == [act[x] EXCEPT !.at = at, !.ok = ok]
  <2>1. row \in ActRow /\ row.at = at
    BY <1>1 DEF ActRow
  <2>2. act' = [act EXCEPT ![x] = row]
    BY <1>3 DEF ActBecomes, ChatInv, ChatTyped
  <2> HIDE DEF row
  <2> QED BY <1>1, <1>3, <2>1, <2>2, ActStep
<1>4. CASE Checked(x)
  BY <1>2, <1>3, <1>4 DEF Checked
<1>5. CASE Sized(x)
  BY <1>3, <1>5 DEF Sized
<1>6. CASE Reported(x)
  BY <1>1, <1>2, <1>6 DEF Reported, ActRow
<1> QED BY <1>4, <1>5, <1>6 DEF ActGoesOn

\* A step of the command of the message a: its place in the queue, its approvals, its run.
LEMMA CommandStep ==
  ASSUME ChatInv, ChatTyped', turn' = turn, NEW a \in Asks,
         \A b \in Asks \ {a} : pending'[b] = pending[b] /\ executed'[b] = executed[b],
         \A x \in Asks \cup Clicks, b \in Asks \ {a} : ApprovalOf(x, b)' = ApprovalOf(x, b),
         \A x \in Asks \cup Clicks : act'[x] = act[x] \/ (x \in Clicks /\ act'[x].does \in Asks \cup Governed
                                                          /\ (act'[x].at = "approved" => act'[x].does \in Asks)),
         CommandSound(a)'
  PROVE  ChatInv'
<1>1. ASSUME NEW b \in Asks PROVE TurnSound(turn[b])' /\ CommandSound(b)'
  <2>1. TurnSound(turn[b]) /\ CommandSound(b)
    BY DEF ChatInv
  <2>2. TurnSound(turn[b])'
    BY <2>1 DEF TurnSound
  <2>3. CASE b # a
    BY <2>1, <2>2, <2>3 DEF CommandSound
  <2> QED BY <2>2, <2>3
<1>2. ASSUME NEW x \in Asks \cup Clicks PROVE ActSound(x)'
  <2>1. ActSound(x)
    BY DEF ChatInv
  <2> QED BY <2>1, ChatBounds DEF ActSound
<1> QED BY <1>1, <1>2 DEF ChatInv

LEMMA ClickIsRequest ==
  ASSUME ChatInv, NEW c \in Clicks, NEW action \in Governed, Requested(c, action)
  PROVE  ChatInv'
BY ActRows, ChatBounds, ActStep DEF Requested, InFlight

LEMMA ClickIsApproval ==
  ASSUME ChatInv, NEW c \in Clicks, NEW a \in Asks, Approved(c, a)
  PROVE  ChatInv'
<1> DEFINE row == [at |-> "approved", does |-> a, ok |-> FALSE]
<1>1. row \in ActRow /\ row.at = "approved" /\ row.does = a
  BY DEF ActRow
<1>2. /\ act' = [act EXCEPT ![c] = row] /\ pending' = [pending EXCEPT ![a] = "approved"]
      /\ act[c].at = "none" /\ pending[a] = "waiting" /\ UNCHANGED <<turn, executed>>
  BY DEF Approved
<1> HIDE DEF row
<1>3. ChatTyped /\ CommandSound(a)
  BY DEF ChatInv
<1>4. /\ act' \in [Asks \cup Clicks -> ActRow] /\ act'[c] = row
      /\ \A x \in (Asks \cup Clicks) \ {c} : act'[x] = act[x]
      /\ pending' \in [Asks -> {"none", "waiting", "approved", "expired"}] /\ pending'[a] = "approved"
      /\ \A b \in Asks \ {a} : pending'[b] = pending[b]
  BY <1>1, <1>2, <1>3 DEF ChatTyped
<1>5. ChatTyped'
  BY <1>2, <1>3, <1>4 DEF ChatTyped
<1>6. executed[a] = 0 /\ \A x \in Asks \cup Clicks : ~ApprovalOf(x, a)
  BY <1>2, <1>3 DEF CommandSound
<1>7. \A x \in Asks \cup Clicks : /\ ApprovalOf(x, a)' => x = c
                                  /\ \A b \in Asks \ {a} : ApprovalOf(x, b)' = ApprovalOf(x, b)
  BY <1>1, <1>2, <1>4, <1>6 DEF ApprovalOf
<1>8. turn[a].at \notin {"unsent", "gathering"}
  BY <1>2, <1>3 DEF CommandSound
<1>9. CommandSound(a)'
  BY <1>2, <1>4, <1>6, <1>7, <1>8 DEF CommandSound
<1> QED BY <1>1, <1>2, <1>4, <1>5, <1>7, <1>9, CommandStep

LEMMA ApprovalRuns ==
  ASSUME ChatInv, NEW c \in Clicks, ApprovedRuns(c)
  PROVE  ChatInv'
<1> DEFINE a == act[c].does
<1>1. /\ act[c].at = "approved" /\ act' = [act EXCEPT ![c] = DoneAct]
      /\ executed' = [executed EXCEPT ![a] = @ + 1] /\ UNCHANGED <<turn, pending>>
  BY DEF ApprovedRuns
<1>2. a \in Asks /\ ChatTyped
  BY <1>1 DEF ChatInv, ActSound
<1>3. CommandSound(a) /\ ApprovalOf(c, a)
  BY <1>1, <1>2 DEF ChatInv, ApprovalOf
<1>4. executed[a] = 0 /\ pending[a] = "approved" /\ \A x \in Asks \cup Clicks : ApprovalOf(x, a) => x = c
  BY <1>3 DEF CommandSound
<1>5. PICK b : b = a
  OBVIOUS
<1> HIDE DEF a
<1>6. /\ act' \in [Asks \cup Clicks -> ActRow] /\ act'[c] = DoneAct
      /\ \A x \in (Asks \cup Clicks) \ {c} : act'[x] = act[x]
      /\ executed' \in [Asks -> Nat] /\ executed'[b] = 1
      /\ \A d \in Asks \ {b} : executed'[d] = executed[d]
  BY <1>1, <1>2, <1>4, <1>5, ActRows DEF ChatTyped
<1>7. ChatTyped'
  BY <1>1, <1>2, <1>6 DEF ChatTyped
<1>8. \A x \in Asks \cup Clicks : /\ ~ApprovalOf(x, b)'
                                  /\ \A d \in Asks \ {b} : ApprovalOf(x, d)' = ApprovalOf(x, d)
  BY <1>3, <1>4, <1>5, <1>6, ActRows DEF ApprovalOf
<1>9. turn[b].at \notin {"unsent", "gathering"}
  BY <1>3, <1>4, <1>5 DEF CommandSound
<1>10. CommandSound(b)'
  BY <1>1, <1>4, <1>5, <1>6, <1>8, <1>9 DEF CommandSound
<1>11. DoneAct.does \in Governed /\ DoneAct.at # "approved"
  BY ActRows DEF DoneAct, NoAct, Governed
<1> QED BY <1>1, <1>2, <1>5, <1>6, <1>7, <1>8, <1>10, <1>11, CommandStep

LEMMA CommandExpires == ASSUME ChatInv, (\E a \in Asks : PendingExpires(a)) \/ ChatShutdown PROVE ChatInv'
<1>1. /\ UNCHANGED <<turn, act, executed>> /\ pending' \in [Asks -> {"none", "waiting", "approved", "expired"}]
      /\ \A a \in Asks : pending'[a] = pending[a] \/ (pending[a] = "waiting" /\ pending'[a] = "expired")
  BY DEF PendingExpires, ChatShutdown, ChatInv, ChatTyped
<1>2. ChatTyped'
  BY <1>1 DEF ChatInv, ChatTyped
<1>3. ASSUME NEW a \in Asks PROVE TurnSound(turn[a])' /\ CommandSound(a)'
  <2>1. TurnSound(turn[a]) /\ CommandSound(a)
    BY DEF ChatInv
  <2> QED BY <1>1, <2>1 DEF TurnSound, CommandSound, ApprovalOf
<1>4. ASSUME NEW x \in Asks \cup Clicks PROVE ActSound(x)'
  BY <1>1 DEF ChatInv, ActSound
<1> QED BY <1>2, <1>3, <1>4 DEF ChatInv

LEMMA ChatRests == ASSUME ChatInv, UNCHANGED <<turn, act, pending, executed>> PROVE ChatInv'
<1>1. ChatTyped'
  BY DEF ChatInv, ChatTyped
<1>2. ASSUME NEW a \in Asks PROVE TurnSound(turn[a])' /\ CommandSound(a)'
  <2>1. TurnSound(turn[a]) /\ CommandSound(a)
    BY DEF ChatInv
  <2> QED BY <2>1 DEF TurnSound, CommandSound, ApprovalOf
<1>3. ASSUME NEW x \in Asks \cup Clicks PROVE ActSound(x)'
  BY DEF ChatInv, ActSound
<1> QED BY <1>1, <1>2, <1>3 DEF ChatInv

LEMMA ChatBegins == ChatInit => ChatInv
<1> SUFFICES ASSUME ChatInit PROVE ChatInv
  OBVIOUS
<1>1. turn = [a \in Asks |-> IF a \in Asks THEN Unsent ELSE Ended(Unsent)]
      /\ act = [x \in Asks \cup Clicks |-> IF x \in Asks \cup Clicks THEN NoAct ELSE DoneAct]
      /\ pending = [a \in Asks |-> "none"] /\ executed = [a \in Asks |-> 0]
  BY DEF ChatInit, ChatStarts
<1>2. /\ turn \in [Asks -> TurnRow] /\ \A a \in Asks : turn[a] = Unsent
      /\ act \in [Asks \cup Clicks -> ActRow] /\ \A x \in Asks \cup Clicks : act[x] = NoAct
  BY <1>1, UnsentRow, ActRows
<1>3. ChatTyped
  BY <1>1, <1>2 DEF ChatTyped
<1>4. ASSUME NEW a \in Asks PROVE TurnSound(turn[a]) /\ CommandSound(a)
  <2>1. executed[a] = 0 /\ pending[a] = "none"
    BY <1>1
  <2>2. \A x \in Asks \cup Clicks : ~ApprovalOf(x, a)
    BY <1>2, ActRows DEF ApprovalOf
  <2>3. TurnSound(turn[a])
    BY <1>2, UnsentRow DEF TurnSound
  <2> QED BY <2>1, <2>2, <2>3 DEF CommandSound
<1>5. ASSUME NEW x \in Asks \cup Clicks PROVE ActSound(x)
  BY <1>2, ActRows DEF ActSound, InFlight
<1> QED BY <1>3, <1>4, <1>5 DEF ChatInv

LEMMA ChatStepKeeps == ChatInv /\ [ChatNext]_chatVars => ChatInv'
<1>1. ASSUME ChatInv, [ChatNext]_chatVars PROVE ChatInv'
  <2>1. CASE UNCHANGED chatVars \/ TranscriptPruned \/ DeleteThread
    BY <1>1, <2>1, ChatRests DEF chatVars, TranscriptPruned, DeleteThread
  <2>2. ASSUME NEW a \in Asks, AskSent(a) \/ TurnGoesOn(a) \/ ToolCalled(a) \/ CancelChat(a) \/ PendingExpires(a)
        PROVE  ChatInv'
    BY <1>1, <2>2, MessageIsSent, EvidenceComes, TurnMoves, ToolBegins, CommandExpires DEF TurnGoesOn
  <2>3. ASSUME NEW c \in Clicks, \/ \E action \in Governed : Requested(c, action)
                                 \/ \E a \in Asks : Approved(c, a)
                                 \/ ApprovedRuns(c)
        PROVE  ChatInv'
    BY <1>1, <2>3, ClickIsRequest, ClickIsApproval, ApprovalRuns
  <2>4. ASSUME NEW x \in Asks \cup Clicks, ActGoesOn(x) PROVE ChatInv'
    BY <1>1, <2>4, ActGoes
  <2>5. CASE ChatShutdown
    BY <1>1, <2>5, CommandExpires
  <2> QED BY <1>1, <2>1, <2>2, <2>3, <2>4, <2>5 DEF ChatNext
<1> QED BY <1>1

LEMMA ChatInvariant == ChatSpec => []ChatInv
BY ChatStepKeeps, ChatBegins, PTL DEF ChatSpec

\* The budget of a turn, and that whoever thinks or calls a tool is a provider.
WithProvider == {"thinking", "looking", "running", "tool"}
Bounded(t) ==
  /\ t.iterations <= MaxIterations /\ t.toolCalls <= MaxToolCalls /\ t.excluded \subseteq Talkers
  /\ t.at \in WithProvider => t.provider \in Talkers
TurnsBounded == \A a \in Asks : Bounded(turn[a])
ChatRestTyped ==
  /\ tasks \in Nat /\ receipt \in BOOLEAN
  /\ conversation \in {"open", "deleted", "down"} /\ events \in 0 .. MaxChatEvents

LEMMA UnsentBounded == Bounded(Unsent) /\ \A t : Bounded(Ended(t))
BY ChatBounds DEF Bounded, Unsent, Ended, WithProvider

LEMMA ConversesBounded ==
  ASSUME NEW t \in TurnRow, Bounded(t)
  PROVE  Bounded(Converses(t))
BY UnsentBounded DEF Converses, Bounded, TurnRow, WithProvider

LEMMA IteratesBounded ==
  ASSUME NEW t \in TurnRow, Bounded(t), t.provider \in Talkers
  PROVE  Bounded(Iterates(t))
<1> DEFINE u == [t EXCEPT !.at = "thinking", !.iterations = @ + 1]
<1>1. CASE Iterates(t) = Ended(t)
  BY <1>1, UnsentBounded
<1>2. CASE t.iterations < MaxIterations /\ Iterates(t) = u
  <2>1. t.iterations \in Nat /\ t.iterations + 1 <= MaxIterations
    BY <1>2, ChatBounds DEF TurnRow
  <2>2. u.iterations = t.iterations + 1 /\ u.provider = t.provider /\ u.toolCalls = t.toolCalls
        /\ u.excluded = t.excluded
    BY DEF TurnRow
  <2> HIDE DEF u
  <2> QED BY <1>2, <2>1, <2>2 DEF Bounded
<1>3. t.iterations \in Nat
  BY DEF TurnRow
<1> QED BY <1>1, <1>2, <1>3, ChatBounds DEF Iterates

LEMMA ReturnsBounded ==
  ASSUME NEW t \in TurnRow, NEW committed \in BOOLEAN, Bounded(t), t.provider \in Talkers
  PROVE  Bounded(ToolReturned(t, committed))
<1> DEFINE u == [t EXCEPT !.committed = @ \/ committed, !.by = IF committed THEN t.provider ELSE @]
<1>1. u \in TurnRow /\ u.iterations = t.iterations /\ u.provider = t.provider
      /\ u.toolCalls = t.toolCalls /\ u.excluded = t.excluded /\ u.at = t.at
  <2>1. (t.committed \/ committed) \in BOOLEAN
    BY DEF TurnRow
  <2> DEFINE c == t.committed \/ committed
             b == IF committed THEN t.provider ELSE t.by
             w == [t EXCEPT !.committed = c, !.by = b]
  <2>2. b \in Talkers \cup {NoTalker} /\ c \in BOOLEAN
    BY <2>1 DEF TurnRow
  <2>3. u = w
    OBVIOUS
  <2> HIDE DEF c, b, u
  <2> QED BY <2>2, <2>3 DEF TurnRow
<1>2. ToolReturned(t, committed) = Iterates(u)
  BY DEF ToolReturned
<1> HIDE DEF u
<1>3. Bounded(u)
  BY <1>1 DEF Bounded
<1> QED BY <1>1, <1>2, <1>3, IteratesBounded

LEMMA FailsBounded ==
  ASSUME NEW t \in TurnRow, Bounded(t), t.provider \in Talkers
  PROVE  Bounded(ProviderFailed(t))
<1> DEFINE u == [t EXCEPT !.provider = NoTalker, !.excluded = @ \cup {t.provider},
                          !.iterations = 0, !.toolCalls = 0]
<1>1. u \in TurnRow
  BY DEF TurnRow
<1>2. u.iterations = 0 /\ u.toolCalls = 0 /\ u.excluded = t.excluded \cup {t.provider}
  BY DEF TurnRow
<1>3. ProviderFailed(t) \in {Ended(t), Converses(u)}
  BY DEF ProviderFailed
<1> DEFINE v == [u EXCEPT !.at = "acquiring", !.message = "talk"]
<1>4. Converses(u) \in {Ended(u), v}
  BY DEF Converses
<1> HIDE DEF u
<1>5. v.iterations = 0 /\ v.toolCalls = 0 /\ v.excluded = t.excluded \cup {t.provider} /\ v.at = "acquiring"
  BY <1>1, <1>2 DEF TurnRow
<1> HIDE DEF v
<1>6. Bounded(v)
  BY <1>5, ChatBounds DEF Bounded, WithProvider
<1> QED BY <1>3, <1>4, <1>6, UnsentBounded

LEMMA OneTurnBounded ==
  ASSUME ChatTyped, TurnsBounded, NEW a \in Asks, NEW u, Bounded(u),
         TurnBecomes(a, u) \/ turn' = [turn EXCEPT ![a] = u]
  PROVE  TurnsBounded'
<1>1. turn' = [turn EXCEPT ![a] = u] /\ turn \in [Asks -> TurnRow]
  BY DEF TurnBecomes, ChatTyped
<1>2. ASSUME NEW b \in Asks PROVE Bounded(turn'[b])
  BY <1>1 DEF TurnsBounded
<1> QED BY <1>2 DEF TurnsBounded, Bounded

\* What a provider or a tool does keeps the turn of its message within the budget.
LEMMA TurnStepBounded ==
  ASSUME ChatInv, TurnsBounded, NEW a \in Asks, AskSent(a) \/ TurnGoesOn(a) \/ ToolCalled(a) \/ CancelChat(a)
  PROVE  TurnsBounded'
<1> DEFINE t == turn[a]
           Moves(u) == TurnBecomes(a, u) \/ turn' = [turn EXCEPT ![a] = u]
<1>1. ChatTyped /\ t \in TurnRow /\ Bounded(t) /\ turn \in [Asks -> TurnRow]
  BY DEF ChatInv, ChatTyped, TurnsBounded
<1>2. t.at \in WithProvider => t.provider \in Talkers
  BY <1>1 DEF Bounded
<1> HIDE DEF t
<1>3. ASSUME NEW u, Bounded(u), Moves(u) PROVE TurnsBounded'
  BY <1>1, <1>3, OneTurnBounded
<1>4. ASSUME NEW at \in {"commanding", "acting"} PROVE Bounded([t EXCEPT !.at = at])
  BY <1>1 DEF Bounded, TurnRow, WithProvider
<1>5. CASE AskSent(a)
  <2>1. PICK m \in Sent[a] : Moves([Unsent EXCEPT !.at = "gathering", !.mode = m.mode,
                                                  !.message = m.message, !.selected = m.selected])
    BY <1>5 DEF AskSent
  <2>2. Bounded([Unsent EXCEPT !.at = "gathering", !.mode = m.mode,
                               !.message = m.message, !.selected = m.selected])
    BY ChatBounds DEF Bounded, Unsent, WithProvider
  <2> QED BY <1>3, <2>1, <2>2
<1>6. CASE Gathered(a) \/ Commanded(a)
  <2>1. \/ Moves(Converses(t)) \/ Moves([t EXCEPT !.at = "commanding"]) \/ Moves([t EXCEPT !.at = "acting"])
    BY <1>6 DEF Gathered, Commanded, t
  <2>2. Bounded(Converses(t))
    BY <1>1, ConversesBounded
  <2> QED BY <1>3, <1>4, <2>1, <2>2
<1>7. CASE CancelChat(a)
  <2>1. turn' = [turn EXCEPT ![a] = [t EXCEPT !.aborted = TRUE]]
    BY <1>7 DEF CancelChat, t
  <2>2. Bounded([t EXCEPT !.aborted = TRUE])
    BY <1>1 DEF Bounded, TurnRow
  <2> QED BY <1>3, <2>1, <2>2
<1>8. CASE Acquired(a) \/ SelectedAcquired(a)
  <2>1. \/ Moves(Ended(t))
        \/ \E p \in Talkers : Moves(Iterates([t EXCEPT !.provider = p]))
    <3>1. t.selected \in Talkers \cup {NoTalker}
      BY <1>1 DEF TurnRow
    <3> QED BY <1>8, <3>1 DEF Acquired, SelectedAcquired, Takes, t
  <2>2. ASSUME NEW p \in Talkers PROVE Bounded(Iterates([t EXCEPT !.provider = p]))
    <3> DEFINE u == [t EXCEPT !.provider = p]
    <3>1. u \in TurnRow /\ u.provider = p
      BY <1>1 DEF TurnRow
    <3>2. u.iterations = t.iterations /\ u.toolCalls = t.toolCalls /\ u.excluded = t.excluded
      BY <1>1 DEF TurnRow
    <3> HIDE DEF u
    <3>3. Bounded(u)
      BY <1>1, <3>1, <3>2 DEF Bounded
    <3>4. Bounded(Iterates(u))
      BY <3>1, <3>3, IteratesBounded
    <3> QED BY <3>4 DEF u
  <2> QED BY <1>3, <2>1, <2>2, UnsentBounded
<1>9. CASE Thought(a)
  <2>1. t.provider \in Talkers /\ (Moves(Ended(t)) \/ Moves(Iterates(t)) \/ Moves(ProviderFailed(t)))
    BY <1>2, <1>9 DEF Thought, t, WithProvider
  <2>2. Bounded(Iterates(t)) /\ Bounded(ProviderFailed(t))
    BY <1>1, <2>1, IteratesBounded, FailsBounded
  <2> QED BY <1>3, <2>1, <2>2, UnsentBounded
<1>10. CASE ToolEnds(a)
  <2>1. t.provider \in Talkers
    BY <1>2, <1>10 DEF ToolEnds, t, WithProvider
  <2> DEFINE u == [t EXCEPT !.told = FALSE]
  <2>2. Moves(ToolReturned(u, FALSE)) \/ \E committed \in BOOLEAN : Moves(ToolReturned(t, committed))
    BY <1>10 DEF ToolEnds, t
  <2>3. u \in TurnRow /\ u.provider = t.provider /\ Bounded(u)
    BY <1>1 DEF TurnRow, Bounded
  <2> HIDE DEF u
  <2>4. Bounded(ToolReturned(u, FALSE)) /\ \A committed \in BOOLEAN : Bounded(ToolReturned(t, committed))
    BY <1>1, <2>1, <2>3, ReturnsBounded
  <2> QED BY <1>3, <2>2, <2>4
<1>11. CASE ToolCalled(a)
  <2> DEFINE n == t.toolCalls + 1
             u == [t EXCEPT !.toolCalls = n]
             In(at) == [u EXCEPT !.at = at]
  <2>1. t.provider \in Talkers
    BY <1>2, <1>11 DEF ToolCalled, t, WithProvider
  <2>2. CASE Moves(Ended(u))
    BY <1>3, <2>2, UnsentBounded
  <2>3. CASE t.toolCalls < MaxToolCalls
    <3>1. n \in Nat /\ n <= MaxToolCalls
      BY <1>1, <2>3, ChatBounds DEF TurnRow
    <3>2. Moves(ToolReturned(u, FALSE)) \/ \E at \in {"looking", "running", "tool"} : Moves(In(at))
      <4>1. t.toolCalls \in Nat /\ ~(t.toolCalls >= MaxToolCalls)
        BY <1>1, <2>3, ChatBounds DEF TurnRow
      <4>2. [t EXCEPT !.toolCalls = @ + 1] = u
        OBVIOUS
      <4> HIDE DEF u
      <4> QED BY <1>11, <4>1, <4>2 DEF ToolCalled, t
    <3> HIDE DEF n
    <3>3. u \in TurnRow /\ u.provider = t.provider /\ Bounded(u)
      BY <1>1, <3>1 DEF TurnRow, Bounded
    <3> HIDE DEF u
    <3>4. Bounded(ToolReturned(u, FALSE))
      BY <2>1, <3>3, ReturnsBounded
    <3>5. ASSUME NEW at \in {"looking", "running", "tool"} PROVE Bounded(In(at))
      BY <2>1, <3>3 DEF Bounded, TurnRow
    <3> HIDE DEF In
    <3> QED BY <1>3, <3>2, <3>4, <3>5
  <2>4. t.toolCalls < MaxToolCalls \/ Moves(Ended(u))
    <3>1. t.toolCalls < MaxToolCalls \/ t.toolCalls >= MaxToolCalls
      BY <1>1, ChatBounds DEF TurnRow
    <3>2. ASSUME t.toolCalls >= MaxToolCalls PROVE TurnBecomes(a, Ended([t EXCEPT !.toolCalls = @ + 1]))
      BY <1>11, <3>2, Zenon DEF ToolCalled, t
    <3>3. [t EXCEPT !.toolCalls = @ + 1] = u
      OBVIOUS
    <3> HIDE DEF u
    <3> QED BY <3>1, <3>2, <3>3
  <2> QED BY <2>2, <2>3, <2>4
<1> QED BY <1>5, <1>6, <1>7, <1>8, <1>9, <1>10, <1>11 DEF TurnGoesOn

LEMMA ActStepBounded ==
  ASSUME ChatInv, TurnsBounded, NEW x \in Asks \cup Clicks, ActGoesOn(x)
  PROVE  TurnsBounded'
<1>1. CASE UNCHANGED turn
  BY <1>1 DEF TurnsBounded, Bounded
<1>2. ASSUME NEW ok \in BOOLEAN, Replies(x, ok), x \in Asks PROVE TurnsBounded'
  <2> DEFINE t == turn[x]
             said == t.told \/ (ok /\ act[x].does = "create_task")
             u == [t EXCEPT !.told = said]
  <2>1. ChatTyped /\ t \in TurnRow /\ Bounded(t) /\ t.told \in BOOLEAN
    BY <1>2 DEF ChatInv, ChatTyped, TurnsBounded, TurnRow
  <2>2. t.at \in {"acting", "tool"}
    BY <1>2 DEF ChatInv, ActSound, ActGoesOn, Checked, Sized, Reported, InFlight
  <2>3. TurnBecomes(x, Answered(u, ok))
    <3>1. [t EXCEPT !.told = @ \/ (ok /\ act[x].does = "create_task")] = u
      OBVIOUS
    <3> HIDE DEF u
    <3> QED BY <1>2, <3>1 DEF Replies
  <2>4. said \in BOOLEAN
    BY <2>1
  <2> HIDE DEF said
  <2>5. u \in TurnRow
    BY <2>1, <2>4 DEF TurnRow
  <2>6. u.at = t.at /\ u.iterations = t.iterations /\ u.toolCalls = t.toolCalls
        /\ u.excluded = t.excluded /\ u.provider = t.provider
    BY <2>1 DEF TurnRow
  <2> HIDE DEF u
  <2>7. Bounded(u)
    BY <2>1, <2>6 DEF Bounded
  <2>8. t.at = "tool" => u.provider \in Talkers
    BY <2>6, <2>7 DEF Bounded, WithProvider
  <2>9. Bounded(Answered(u, ok))
    <3>1. CASE t.at = "acting"
      <4>1. Answered(u, ok) \in {Ended(u), Converses(u)}
        BY <2>6, <3>1 DEF Answered
      <4> QED BY <2>5, <2>7, <4>1, UnsentBounded, ConversesBounded
    <3>2. CASE t.at = "tool"
      <4>1. Answered(u, ok) = ToolReturned(u, ok)
        BY <2>6, <3>2 DEF Answered
      <4> QED BY <2>5, <2>7, <2>8, <3>2, <4>1, ReturnsBounded
    <3> QED BY <2>2, <3>1, <3>2
  <2> QED BY <1>2, <2>1, <2>3, <2>9, OneTurnBounded
<1>3. ASSUME NEW ok \in BOOLEAN, Replies(x, ok), x \notin Asks PROVE UNCHANGED turn
  BY <1>3 DEF Replies
<1>4. UNCHANGED turn \/ \E ok \in BOOLEAN : Replies(x, ok)
  <2>1. act[x].at = "reporting" => act[x].ok \in BOOLEAN
    BY DEF ChatInv, ChatTyped, ActRow
  <2> QED BY <2>1 DEF ActGoesOn, Checked, Sized, Reported
<1> QED BY <1>1, <1>2, <1>3, <1>4

LEMMA ChatRestKept ==
  ASSUME ChatInv, ChatRestTyped, talker \in [Talkers -> Asks \cup {NoTalker}], [ChatNext]_chatVars
  PROVE  ChatRestTyped' /\ talker' \in [Talkers -> Asks \cup {NoTalker}]
<1>1. Interferes => events' \in 0 .. MaxChatEvents
  BY ChatBounds DEF Interferes, ChatRestTyped
<1>2. ASSUME NEW a, NEW u, TurnBecomes(a, u) PROVE talker' \in [Talkers -> Asks \cup {NoTalker}]
  BY <1>2 DEF TurnBecomes
<1>3. CASE UNCHANGED chatVars
  BY <1>3 DEF chatVars, ChatRestTyped
<1>4. ASSUME NEW a \in Asks, AskSent(a) \/ CancelChat(a) \/ PendingExpires(a)
      PROVE  ChatRestTyped' /\ talker' \in [Talkers -> Asks \cup {NoTalker}]
  BY <1>1, <1>4 DEF AskSent, CancelChat, PendingExpires, ChatRestTyped
<1>5. ASSUME NEW a \in Asks, TurnGoesOn(a) \/ ToolCalled(a)
      PROVE  ChatRestTyped' /\ talker' \in [Talkers -> Asks \cup {NoTalker}]
  <2>1. ChatRestTyped'
    BY <1>5 DEF TurnGoesOn, Gathered, Commanded, Acquired, SelectedAcquired, Thought, ToolEnds, ToolCalled,
                ChatRestTyped
  <2>2. (\E u : TurnBecomes(a, u)) \/ (\E p \in Talkers : talker' = [talker EXCEPT ![p] = a])
    <3>1. turn[a].selected \in Talkers \cup {NoTalker}
      BY DEF ChatInv, ChatTyped, TurnRow
    <3> QED BY <1>5, <3>1 DEF TurnGoesOn, Gathered, Commanded, Acquired, SelectedAcquired, Thought,
                              ToolEnds, ToolCalled, Takes
  <2> QED BY <1>2, <2>1, <2>2
<1>6. ASSUME NEW c \in Clicks, \/ \E action \in Governed : Requested(c, action)
                               \/ \E a \in Asks : Approved(c, a)
                               \/ ApprovedRuns(c)
      PROVE  ChatRestTyped' /\ talker' \in [Talkers -> Asks \cup {NoTalker}]
  BY <1>6 DEF Requested, Approved, ApprovedRuns, ChatRestTyped
<1>7. ASSUME NEW x \in Asks \cup Clicks, ActGoesOn(x)
      PROVE  ChatRestTyped' /\ talker' \in [Talkers -> Asks \cup {NoTalker}]
  <2>1. UNCHANGED <<conversation, events>> /\ tasks' \in {tasks, tasks + 1}
        /\ receipt' \in {receipt, conversation # "deleted"}
    BY <1>7, Zenon DEF ActGoesOn, Checked, Sized, Reported
  <2>2. ChatRestTyped'
    <3>1. receipt' \in BOOLEAN
      <4>1. receipt \in BOOLEAN
        BY DEF ChatRestTyped
      <4> QED BY <2>1, <4>1, Zenon
    <3>2. tasks' \in Nat
      <4>1. tasks \in Nat
        BY DEF ChatRestTyped
      <4> QED BY <2>1, <4>1
    <3>3. conversation' \in {"open", "deleted", "down"} /\ events' \in 0 .. MaxChatEvents
      <4>1. conversation' = conversation /\ events' = events
        BY <2>1
      <4> QED BY <4>1, Zenon DEF ChatRestTyped
    <3> QED BY <3>1, <3>2, <3>3, Zenon DEF ChatRestTyped
  <2>3. UNCHANGED talker \/ \E u : TurnBecomes(x, u)
    BY <1>7 DEF ActGoesOn, Checked, Sized, Reported, Replies
  <2> QED BY <1>2, <2>2, <2>3
<1>8. CASE TranscriptPruned \/ DeleteThread \/ ChatShutdown
  BY <1>1, <1>8 DEF TranscriptPruned, DeleteThread, ChatShutdown, ChatRestTyped
<1> QED BY <1>3, <1>4, <1>5, <1>6, <1>7, <1>8 DEF ChatNext

LEMMA TurnsStayBounded ==
  ASSUME ChatInv, TurnsBounded, [ChatNext]_chatVars
  PROVE  TurnsBounded'
<1>1. CASE UNCHANGED turn
  BY <1>1 DEF TurnsBounded, Bounded
<1>2. \/ UNCHANGED turn
      \/ \E a \in Asks : AskSent(a) \/ TurnGoesOn(a) \/ ToolCalled(a) \/ CancelChat(a)
      \/ \E x \in Asks \cup Clicks : ActGoesOn(x)
  BY DEF ChatNext, chatVars, PendingExpires, Requested, Approved, ApprovedRuns, TranscriptPruned,
         DeleteThread, ChatShutdown
<1> QED BY <1>1, <1>2, TurnStepBounded, ActStepBounded

\* Every turn, action and lease of the chat keeps its type. No turn goes beyond its budget, in
\* whatever order tools, failures and the next provider come, and only a provider thinks or calls
\* a tool (runChatAgentLoop, executeChatAgentTool).
THEOREM ChatTypeCorrect == ChatSpec => []ChatTypeOK
<1> DEFINE Inv == ChatInv /\ TurnsBounded /\ ChatRestTyped /\ talker \in [Talkers -> Asks \cup {NoTalker}]
<1>1. ChatInit => Inv
  <2> SUFFICES ASSUME ChatInit PROVE Inv
    OBVIOUS
  <2>1. ChatRestTyped /\ talker \in [Talkers -> Asks \cup {NoTalker}]
    <3>1. talker = [p \in Talkers |-> NoTalker] /\ tasks = 0 /\ receipt = FALSE
          /\ conversation = "open" /\ events = 0
      BY DEF ChatInit, ChatStarts
    <3>2. ChatRestTyped
      <4>1. events \in 0 .. MaxChatEvents /\ tasks \in Nat
        BY <3>1, ChatBounds
      <4>2. receipt \in BOOLEAN /\ conversation \in {"open", "deleted", "down"}
        BY <3>1
      <4> QED BY <4>1, <4>2, Zenon DEF ChatRestTyped
    <3>3. talker \in [Talkers -> Asks \cup {NoTalker}]
      BY <3>1
    <3> QED BY <3>2, <3>3
  <2>2. \A a \in Asks : turn[a] = Unsent
    BY DEF ChatInit, ChatStarts
  <2> QED BY <2>1, <2>2, ChatBegins, UnsentBounded DEF TurnsBounded
<1>2. Inv /\ [ChatNext]_chatVars => Inv'
  <2>1. ChatInv /\ [ChatNext]_chatVars => ChatInv'
    BY ChatStepKeeps
  <2> QED BY <2>1, ChatRestKept, TurnsStayBounded
<1>3. Inv => ChatTypeOK
  <2> SUFFICES ASSUME Inv PROVE ChatTypeOK
    OBVIOUS
  <2> DEFINE Row == [at : {"unsent", "gathering", "commanding", "acting",
                             "acquiring", "thinking", "looking", "running", "tool", "ended"},
                     mode : AccessModes, message : Messages, selected : Talkers \cup {NoTalker},
                     aborted : BOOLEAN, provider : Talkers \cup {NoTalker},
                     excluded : SUBSET Talkers, iterations : 0 .. MaxIterations,
                     toolCalls : 0 .. MaxToolCalls, committed : BOOLEAN, told : BOOLEAN,
                     by : Talkers \cup {NoTalker}]
  <2>1. ASSUME NEW a \in Asks PROVE turn[a] \in Row
    <3>1. turn[a] \in TurnRow /\ Bounded(turn[a])
      BY DEF ChatInv, ChatTyped, TurnsBounded
    <3>2. turn[a].iterations \in 0 .. MaxIterations /\ turn[a].toolCalls \in 0 .. MaxToolCalls
          /\ turn[a].excluded \in SUBSET Talkers
      BY <3>1, ChatBounds DEF TurnRow, Bounded
    <3> QED BY <3>1, <3>2 DEF TurnRow
  <2>2. turn \in [Asks -> Row]
    <3>1. turn = [a \in Asks |-> turn[a]]
      BY DEF ChatInv, ChatTyped
    <3> HIDE DEF Row
    <3> QED BY <2>1, <3>1
  <2> QED BY <2>2 DEF ChatInv, ChatTyped, ChatRestTyped, ChatTypeOK, ActRow
<1> HIDE DEF Inv
<1> QED BY <1>1, <1>2, <1>3, PTL DEF ChatSpec

\* However messages, clicks, approvals, expiries, cancellations and shutdowns interleave: a command
\* runs once, and one that needed an approval only after one that was in time; no provider
\* takes over from one whose tool reported an effect; and while the receipt of a Task's creation
\* is there, no request creates the Task again (executePendingCommand, synthesizeWithAgentLoop,
\* findCompletedChatAction).
THEOREM ChatRepeatsNothingHolds == ChatSpec => ChatRepeatsNothing
<1>1. ChatInv => CommandRunsOnce /\ FallbackRepeatsNothing
  <2> SUFFICES ASSUME ChatInv, NEW a \in Asks
               PROVE  /\ executed[a] <= 1
                      /\ executed[a] = 1 => pending[a] \in {"none", "approved"}
                      /\ turn[a].mode = "approval" /\ executed[a] = 1 => pending[a] = "approved"
                      /\ turn[a].by # NoTalker => turn[a].provider \in {turn[a].by, NoTalker}
    BY DEF CommandRunsOnce, FallbackRepeatsNothing
  <2>1. CommandSound(a) /\ TurnSound(turn[a]) /\ pending[a] \in {"none", "waiting", "approved", "expired"}
    BY DEF ChatInv, ChatTyped
  <2> QED BY <2>1 DEF CommandSound, TurnSound
<1>2. [ChatNext]_chatVars => [receipt => tasks' = tasks]_chatVars
  <2> SUFFICES ASSUME ChatNext, receipt PROVE tasks' = tasks
    BY DEF chatVars
  <2>1. ASSUME NEW a \in Asks, AskSent(a) \/ TurnGoesOn(a) \/ ToolCalled(a) \/ CancelChat(a) \/ PendingExpires(a)
        PROVE  tasks' = tasks
    BY <2>1 DEF AskSent, TurnGoesOn, Gathered, Commanded, Acquired, SelectedAcquired, Thought, ToolEnds,
                ToolCalled, CancelChat, PendingExpires
  <2>2. ASSUME NEW c \in Clicks, \/ \E action \in Governed : Requested(c, action)
                                 \/ \E a \in Asks : Approved(c, a)
                                 \/ ApprovedRuns(c)
        PROVE  tasks' = tasks
    BY <2>2 DEF Requested, Approved, ApprovedRuns
  <2>3. ASSUME NEW x \in Asks \cup Clicks, ActGoesOn(x) PROVE tasks' = tasks
    BY <2>3 DEF ActGoesOn, Checked, Sized, Reported
  <2>4. CASE TranscriptPruned \/ DeleteThread \/ ChatShutdown
    BY <2>4 DEF TranscriptPruned, DeleteThread, ChatShutdown
  <2> QED BY <2>1, <2>2, <2>3, <2>4 DEF ChatNext
<1>3. ChatSpec => []ChatInv
  BY ChatInvariant
<1>4. ChatSpec => [][receipt => tasks' = tasks]_chatVars
  BY <1>2, PTL DEF ChatSpec
<1> QED BY <1>1, <1>3, <1>4, PTL DEF ChatRepeatsNothing, ReceiptIsFinal

-----------------------------------------------------------------------------
\* HumanReview.  A merged pull request stays merged, and a closed one was closed.

PrRow == [state : {"OPEN", "MERGED", "CLOSED"}, draft : BOOLEAN]
HumanInv == pr \in PrRow /\ (pr.state = "CLOSED" => closedOnce) /\ StatusIsTrue

LEMMA PrRows ==
  ASSUME NEW state \in {"OPEN", "MERGED", "CLOSED"}, NEW isDraft \in BOOLEAN
  PROVE  PullRequest(state, isDraft) \in PrRow /\ PullRequest(state, isDraft).state = state
BY DEF PullRequest, PrRow

LEMMA OneCallAndAnother ==
  ASSUME NEW x, NEW y
  PROVE  /\ Len(<<x>> \o <<>>) = 1 /\ (<<x>> \o <<>>)[1] = x
         /\ Len(<<x>> \o <<y>>) = 2 /\ (<<x>> \o <<y>>)[1] = x /\ (<<x>> \o <<y>>)[2] = y
OBVIOUS

\* What the calls of a decision leave, each of them and the last.
Leaves(d, merge, calls) ==
  /\ Len(calls) \in {1, 2}
  /\ \A k \in 1 .. Len(calls) : calls[k] \in PrRow /\ (pr.state = "MERGED" => calls[k].state = "MERGED")
  /\ d = "approved" /\ merge => calls[Len(calls)].state = "MERGED"
  /\ d = "rejected" => calls[Len(calls)].state = "CLOSED"

LEMMA CallsOfDecision ==
  ASSUME HumanInv, NEW d \in Decisions, NEW merge \in BOOLEAN, GitHubAllows(d)
  PROVE  Leaves(d, merge, GitHubCalls(d, merge))
<1>1. pr \in PrRow /\ (d = "approved" => pr.state = "OPEN") /\ (d = "rejected" => pr.state # "MERGED")
      /\ pr.draft \in BOOLEAN
  BY DEF HumanInv, GitHubAllows, PrRow
<1>2. CASE d = "approved"
  <2> DEFINE x == PullRequest("OPEN", FALSE)
             y == PullRequest("MERGED", FALSE)
  <2>1. x \in PrRow /\ y \in PrRow /\ y.state = "MERGED"
    BY PrRows
  <2>2. GitHubCalls(d, merge) = <<x>> \o (IF merge THEN <<y>> ELSE <<>>)
    BY <1>2 DEF GitHubCalls
  <2> HIDE DEF x, y
  <2>3. CASE merge
    <3>1. GitHubCalls(d, merge) = <<x>> \o <<y>>
      BY <2>2, <2>3
    <3>2. \A k \in 1 .. 2 : k = 1 \/ k = 2
      OBVIOUS
    <3> QED BY <1>1, <1>2, <2>1, <3>1, <3>2, OneCallAndAnother DEF Leaves
  <2>4. CASE ~merge
    <3>1. GitHubCalls(d, merge) = <<x>> \o <<>>
      BY <2>2, <2>4
    <3>2. \A k \in 1 .. 1 : k = 1
      OBVIOUS
    <3> QED BY <1>1, <1>2, <2>1, <2>4, <3>1, <3>2, OneCallAndAnother DEF Leaves
  <2> QED BY <2>3, <2>4
<1>3. ASSUME d # "approved", NEW x \in PrRow, GitHubCalls(d, merge) = <<x>>,
             pr.state = "MERGED" => x.state = "MERGED", d = "rejected" => x.state = "CLOSED"
      PROVE  Leaves(d, merge, GitHubCalls(d, merge))
  <2>1. Len(<<x>>) = 1 /\ <<x>>[1] = x /\ \A k \in 1 .. 1 : k = 1
    OBVIOUS
  <2> QED BY <1>3, <2>1 DEF Leaves
<1>4. CASE d = "changes_requested" /\ pr.state = "OPEN"
  <2>1. GitHubCalls(d, merge) = <<PullRequest("OPEN", TRUE)>>
    BY <1>4 DEF GitHubCalls
  <2> QED BY <1>3, <1>4, <2>1, PrRows
<1>5. CASE d = "changes_requested" /\ pr.state # "OPEN"
  <2>1. GitHubCalls(d, merge) = <<pr>>
    BY <1>5 DEF GitHubCalls
  <2> QED BY <1>1, <1>3, <1>5, <2>1
<1>6. CASE d = "rejected"
  <2>1. GitHubCalls(d, merge) = <<PullRequest("CLOSED", pr.draft)>>
    BY <1>6 DEF GitHubCalls
  <2> QED BY <1>1, <1>3, <1>6, <2>1, PrRows
<1> QED BY <1>2, <1>4, <1>5, <1>6 DEF Decisions

LEMMA HumanStep == HumanInv /\ [HumanNext]_humanVars => HumanInv'
<1> SUFFICES ASSUME HumanInv, [HumanNext]_humanVars PROVE HumanInv'
  OBVIOUS
<1>1. pr \in PrRow /\ (pr.state = "CLOSED" => closedOnce) /\ (task = "done" => pr.state = "MERGED")
      /\ (task = "rejected" => closedOnce)
  BY DEF HumanInv, StatusIsTrue
<1>2. ASSUME NEW d \in Decisions, NEW merge \in BOOLEAN, HumanDecides(d, merge) PROVE HumanInv'
  <2> DEFINE calls == GitHubCalls(d, merge)
             last == calls[Len(calls)]
  <2>1. GitHubAllows(d) /\ pr' = last /\ closedOnce' = (closedOnce \/ last.state = "CLOSED")
        /\ \/ d = "approved" /\ task' = StatusWhenApproved(merge)
           \/ d = "rejected" /\ task' = "rejected"
           \/ d = "changes_requested" /\ task' \in {task, "changes_requested"}
    BY <1>2 DEF HumanDecides, PrBecomes
  <2>2. Leaves(d, merge, calls)
    BY <2>1, CallsOfDecision
  <2>3. /\ last \in PrRow /\ (pr.state = "MERGED" => last.state = "MERGED")
        /\ d = "approved" /\ merge => last.state = "MERGED"
        /\ d = "rejected" => last.state = "CLOSED"
    <3> HIDE DEF calls
    <3> QED BY <2>2 DEF Leaves
  <2> HIDE DEF calls, last
  <2>4. pr' \in PrRow /\ (pr'.state = "CLOSED" => closedOnce') /\ (closedOnce => closedOnce')
    BY <2>1, <2>3
  <2>5. (task' = "done" => pr'.state = "MERGED") /\ (task' = "rejected" => closedOnce')
    BY <1>1, <2>1, <2>3 DEF StatusWhenApproved
  <2> QED BY <2>4, <2>5 DEF HumanInv, StatusIsTrue
<1>3. ASSUME NEW d \in Decisions, NEW merge \in BOOLEAN, DecisionStops(d, merge) PROVE HumanInv'
  <2>1. PICK k \in 1 .. Len(GitHubCalls(d, merge)) : PrBecomes(GitHubCalls(d, merge)[k])
    BY <1>3 DEF DecisionStops
  <2>2. GitHubAllows(d) /\ task' = task
    BY <1>3 DEF DecisionStops
  <2>3. pr' \in PrRow /\ (pr.state = "MERGED" => pr'.state = "MERGED")
    BY <2>1, <2>2, CallsOfDecision DEF PrBecomes, Leaves
  <2>4. (pr'.state = "CLOSED" => closedOnce') /\ (closedOnce => closedOnce')
    BY <2>1 DEF PrBecomes
  <2> QED BY <1>1, <2>2, <2>3, <2>4 DEF HumanInv, StatusIsTrue
<1>4. CASE PollSyncs
  BY <1>1, <1>4 DEF PollSyncs, StatusFromGitHub, HumanInv, StatusIsTrue, PrRow
<1>5. CASE PollSelects \/ PollFails \/ GoalRunRevises \/ UNCHANGED humanVars
  BY <1>1, <1>5 DEF PollSelects, PollFails, GoalRunRevises, humanVars, HumanInv, StatusIsTrue
<1>6. CASE PrEdited
  <2>1. task' = task /\ pr.draft \in BOOLEAN
    BY <1>1, <1>6 DEF PrEdited, PrRow
  <2>2. \/ UNCHANGED <<pr, closedOnce>>
        \/ \E state \in {"OPEN", "MERGED", "CLOSED"}, isDraft \in BOOLEAN :
             pr.state # "MERGED" /\ PrBecomes(PullRequest(state, isDraft))
    BY <1>6, <2>1 DEF PrEdited
  <2>3. /\ pr' \in PrRow /\ (pr.state = "MERGED" => pr'.state = "MERGED")
        /\ (pr'.state = "CLOSED" => closedOnce') /\ (closedOnce => closedOnce')
    BY <1>1, <2>2, PrRows DEF PrBecomes
  <2> QED BY <1>1, <2>1, <2>3 DEF HumanInv, StatusIsTrue
<1> QED BY <1>2, <1>3, <1>4, <1>5, <1>6 DEF HumanNext

\* Through decisions that stop half way, polls that lag and edits on GitHub, a Task is only
\* "done" when its pull request is merged and only "rejected" when it was closed: the safety half of
\* TaskFollowsPullRequest (decide and reconcilePullRequests of the review coordinator).
THEOREM StatusIsTrueHolds == HumanInit /\ [][HumanNext]_humanVars => []StatusIsTrue
<1>1. HumanInit => HumanInv
  BY DEF HumanInit, HumanStarts, PullRequest, HumanInv, StatusIsTrue, PrRow
<1>2. HumanInv => StatusIsTrue
  BY DEF HumanInv
<1> QED BY <1>1, <1>2, HumanStep, PTL

\* Every decision, row and flag of a review keeps its type.
THEOREM HumanTypeCorrect == HumanInit /\ [][HumanNext]_humanVars => []HumanTypeOK
<1>1. HumanInit => HumanInv /\ HumanTypeOK
  <2> SUFFICES ASSUME HumanInit PROVE HumanInv /\ HumanTypeOK
    OBVIOUS
  <2>1. HumanInv
    BY DEF HumanInit, HumanStarts, PullRequest, HumanInv, StatusIsTrue, PrRow
  <2>2. humanSteps \in 0 .. MaxDecisions /\ prEdits \in 0 .. MaxPrEdits /\ reviewFaults \in 0 .. MaxReviewFaults
    BY HumanBounds DEF HumanInit, HumanStarts
  <2>3. closedOnce \in BOOLEAN /\ gate \in BOOLEAN /\ poll \in BOOLEAN
    BY DEF HumanInit, HumanStarts
  <2> QED BY <2>1, <2>2, <2>3 DEF HumanInit, HumanStarts, HumanInv, PrRow, HumanTypeOK
<1>2. HumanInv /\ HumanTypeOK /\ [HumanNext]_humanVars => HumanTypeOK'
  <2> SUFFICES ASSUME HumanInv, HumanTypeOK, [HumanNext]_humanVars PROVE HumanTypeOK'
    OBVIOUS
  <2> USE DEF HumanTypeOK
  <2>1. pr' \in PrRow
    BY HumanStep DEF HumanInv
  <2>2. \A p : PrBecomes(p) => closedOnce' \in BOOLEAN
    BY DEF PrBecomes
  <2>3. ReviewFault => reviewFaults' \in 0 .. MaxReviewFaults
    BY HumanBounds DEF ReviewFault
  <2>4. \A d \in Decisions : MayDecide(d) => humanSteps' \in 0 .. MaxDecisions
    BY HumanBounds DEF MayDecide
  <2>5. ASSUME NEW d \in Decisions, NEW merge \in BOOLEAN, HumanDecides(d, merge) PROVE HumanTypeOK'
    BY <2>1, <2>2, <2>4, <2>5 DEF HumanDecides, StatusWhenApproved, PrRow
  <2>6. ASSUME NEW d \in Decisions, NEW merge \in BOOLEAN, DecisionStops(d, merge) PROVE HumanTypeOK'
    <3>1. closedOnce' \in BOOLEAN /\ decision' \in {decision, d}
      BY <2>2, <2>6 DEF DecisionStops
    <3>2. UNCHANGED <<task, goalRun, gate, poll, prEdits>>
      BY <2>6 DEF DecisionStops
    <3>3. humanSteps' \in 0 .. MaxDecisions /\ reviewFaults' \in 0 .. MaxReviewFaults
      BY <2>3, <2>4, <2>6 DEF DecisionStops
    <3> QED BY <2>1, <3>1, <3>2, <3>3 DEF PrRow
  <2>7. CASE PollSelects \/ PollSyncs \/ PollFails \/ GoalRunRevises
    BY <2>1, <2>3, <2>7 DEF PollSelects, PollSyncs, PollFails, GoalRunRevises, StatusFromGitHub, PrRow
  <2>8. CASE PrEdited
    <3>1. prEdits' \in 0 .. MaxPrEdits
      BY <2>8, HumanBounds DEF PrEdited
    <3>2. closedOnce' \in BOOLEAN /\ gate' \in BOOLEAN
      BY <2>2, <2>8 DEF PrEdited
    <3> QED BY <2>1, <2>8, <3>1, <3>2 DEF PrEdited, PrRow
  <2>9. CASE UNCHANGED humanVars
    BY <2>9 DEF humanVars
  <2> QED BY <2>5, <2>6, <2>7, <2>8, <2>9 DEF HumanNext
<1> QED BY <1>1, <1>2, HumanStep, PTL

-----------------------------------------------------------------------------
\* SelfUpdate.  Records are written in order and never lost, and speak of commits of origin/main.

IsRecorded(i) == updates[i].status # "none"
UpdateStatuses == {"none", "pending", "in_progress", "completed", "rolled_back", "failed"}
UpdateRow == [status : UpdateStatuses, target : 0..MaxCommits, previous : 0..MaxCommits,
              feature : BOOLEAN]
FlowRow == [at : {"idle", "settle", "check", "trigger", "execute"}, id : 0..MaxUpdates,
            feature : BOOLEAN, by : {"none", "poll", "request"}, saw : 0..MaxCommits]
ScriptSteps == {"none", "merge", "stop", "start", "health", "stopAgain", "reset", "restart"}

LEMMA UpdateTypes ==
  UpdateTypeOK <=> /\ origin \in 0..MaxCommits /\ head \in 0..MaxCommits
                   /\ updates \in [UpdateIds -> UpdateRow] /\ flow \in [Flows -> FlowRow]
                   /\ script \in [UpdateIds -> ScriptSteps] /\ runtimeUp \in BOOLEAN
                   /\ updateEvents \in 0..MaxUpdateEvents
BY DEF UpdateTypeOK, UpdateRow, FlowRow, ScriptSteps, UpdateStatuses

LEMMA IdleTyped == IdleFlow \in FlowRow /\ IdleFlow.at = "idle"
BY UpdateBounds DEF IdleFlow, FlowRow

\* A flow row as it is written.
LEMMA FlowWritten ==
  ASSUME NEW f \in Flows, NEW at \in {"idle", "settle", "check", "trigger", "execute"},
         NEW i \in 0..MaxUpdates, flow \in [Flows -> FlowRow]
  PROVE  /\ FlowAt(f, at, i) \in [Flows -> FlowRow]
         /\ FlowAt(f, at, i)[f].at = at /\ FlowAt(f, at, i)[f].id = i
         /\ \A g \in Flows \ {f} : FlowAt(f, at, i)[g] = flow[g]
BY UpdateBounds DEF FlowAt, FlowRow, IdleFlow

\* The checkout is never ahead of origin/main, and no update asks for, or goes back to, a commit
\* that is not there.  One for a Feature asks for nothing older than what it would go back to.
UpdatesStayOnMain ==
  /\ head <= origin
  /\ \A i \in UpdateIds :
       /\ updates[i].previous <= origin /\ updates[i].target <= origin
       /\ updates[i].feature => updates[i].previous <= updates[i].target
  /\ \A i, j \in UpdateIds : i < j /\ IsRecorded(j) => IsRecorded(i)

\* Whoever holds a record holds one that was written.
HeldIsRecorded ==
  /\ \A f \in Flows : flow[f].at \in {"settle", "execute"} =>
       flow[f].id \in UpdateIds /\ IsRecorded(flow[f].id)
  /\ \A i \in UpdateIds : script[i] # "none" => IsRecorded(i)

\* What a flow saw before its last await was a commit of origin/main; Features come by request.
FlowsSawMain ==
  \A f \in Flows : flow[f].saw <= origin /\ (flow[f].feature => flow[f].by # "poll")

UpdateInv == UpdateTypeOK /\ UpdatesStayOnMain /\ HeldIsRecorded /\ FlowsSawMain

\* A set of ids that is not empty has a last one.
LEMMA LastOne ==
  ASSUME NEW n \in Nat, NEW S \in SUBSET (0 .. n), S # {}
  PROVE  \E m \in S : \A j \in S : j <= m
<1> DEFINE Bounds == {m \in Nat : \A j \in S : j <= m}
<1>1. PICK m \in Bounds : \A k \in Bounds : m <= k
  <2>1. n \in Bounds
    OBVIOUS
  <2> QED BY <2>1, Smallest
<1>2. CASE m \in S
  BY <1>1, <1>2
<1>3. CASE m \notin S
  <2>1. m # 0
    <3>1. PICK j \in S : TRUE
      OBVIOUS
    <3>2. j \in Nat /\ j <= m /\ j # m
      BY <1>1, <1>3, <3>1
    <3> QED BY <3>2
  <2>2. m - 1 \in Nat /\ ~(m <= m - 1)
    BY <1>1, <2>1
  <2>3. ASSUME NEW j \in S PROVE j <= m - 1
    <3>1. j <= m /\ j # m /\ j \in Nat /\ m \in Nat
      BY <1>1, <1>3
    <3> QED BY <3>1
  <2> QED BY <1>1, <2>2, <2>3
<1> QED BY <1>2, <1>3

LEMMA LatestIsLargest ==
  ASSUME UpdateInv
  PROVE  /\ LatestUpdate \in 0 .. MaxUpdates
         /\ LatestUpdate # 0 => IsRecorded(LatestUpdate)
         /\ \A j \in UpdateIds : IsRecorded(j) => j <= LatestUpdate
<1>0. MaxUpdates \in Nat /\ 1 \in UpdateIds
  BY UpdateBounds DEF UpdateIds
<1>1. CASE updates[1].status = "none"
  <2>1. \A j \in UpdateIds : ~IsRecorded(j)
    <3> SUFFICES ASSUME NEW j \in UpdateIds, IsRecorded(j) PROVE FALSE
      OBVIOUS
    <3>1. j = 1 \/ 1 < j
      BY DEF UpdateIds
    <3> QED BY <1>0, <1>1, <3>1 DEF UpdateInv, UpdatesStayOnMain, IsRecorded
  <2>2. LatestUpdate = 0
    BY <1>1 DEF LatestUpdate
  <2> QED BY <1>0, <2>1, <2>2
<1>2. CASE updates[1].status # "none"
  <2>4. PICK m \in {k \in UpdateIds : IsRecorded(k)} : \A j \in UpdateIds : IsRecorded(j) => j <= m
    <3> DEFINE recorded == {k \in UpdateIds : IsRecorded(k)}
    <3>1. recorded # {} /\ recorded \in SUBSET (0 .. MaxUpdates)
      BY <1>0, <1>2 DEF IsRecorded, UpdateIds
    <3>2. \E m \in recorded : \A j \in recorded : j <= m
      <4> HIDE DEF recorded
      <4> QED BY <1>0, <3>1, LastOne
    <3> QED BY <3>2
  <2> DEFINE Latest(i) == /\ updates[i].status # "none"
                          /\ \A j \in UpdateIds : updates[j].status # "none" => j <= i
  <2>6. Latest(m)
    BY <2>4 DEF IsRecorded
  <2>7. LatestUpdate = CHOOSE i \in UpdateIds : Latest(i)
    BY <1>2 DEF LatestUpdate
  <2>8. LatestUpdate \in UpdateIds /\ Latest(LatestUpdate)
    <3> HIDE DEF Latest
    <3> QED BY <2>4, <2>6, <2>7
  <2> QED BY <1>0, <2>8 DEF IsRecorded, UpdateIds
<1> QED BY <1>1, <1>2

\* The invariant once more, for steps that leave the records and the commits alone.
LEMMA FlowMoves ==
  ASSUME UpdateInv, NEW f \in Flows, NEW row, UNCHANGED <<origin, head, updates, script, runtimeUp>>,
         flow' = [flow EXCEPT ![f] = row], updateEvents' \in 0 .. MaxUpdateEvents,
         row \in FlowRow,
         row.at \in {"settle", "execute"} => row.id \in UpdateIds /\ IsRecorded(row.id),
         row.saw <= origin, row.feature => row.by # "poll"
  PROVE  UpdateInv'
<1>1. flow \in [Flows -> FlowRow] /\ flow' \in [Flows -> FlowRow]
  BY UpdateTypes DEF UpdateInv
<1>2. UpdateTypeOK'
  BY <1>1 DEF UpdateInv, UpdateTypeOK, UpdateIds, FlowRow
<1>3. UpdatesStayOnMain'
  BY DEF UpdateInv, UpdatesStayOnMain, IsRecorded, UpdateIds
<1>4. HeldIsRecorded'
  BY <1>1 DEF UpdateInv, HeldIsRecorded, IsRecorded, UpdateIds
<1>5. FlowsSawMain'
  BY <1>1 DEF UpdateInv, FlowsSawMain
<1> QED BY <1>2, <1>3, <1>4, <1>5 DEF UpdateInv

\* A flow that gives up, or that ends with a write of the status of the record it holds.
LEMMA RecordMoves ==
  ASSUME UpdateInv, NEW f \in Flows, flow[f].at \in {"settle", "execute"},
         NEW status \in UpdateStatuses \ {"none"}, updates' = WithUpdate(flow[f].id, status),
         flow' = FlowAt(f, "idle", 0), UNCHANGED <<origin, head, runtimeUp, updateEvents>>,
         script' \in {script, [script EXCEPT ![flow[f].id] = "merge"]}
  PROVE  UpdateInv'
<1> DEFINE i == flow[f].id
<1>1. i \in UpdateIds /\ IsRecorded(i) /\ updates \in [UpdateIds -> UpdateRow]
      /\ updates' = [updates EXCEPT ![i].status = status]
  BY DEF UpdateInv, HeldIsRecorded, UpdateTypeOK, UpdateRow, UpdateStatuses, WithUpdate
<1>2. /\ updates' \in [UpdateIds -> UpdateRow]
      /\ \A j \in UpdateIds : /\ updates'[j].target = updates[j].target
                              /\ updates'[j].previous = updates[j].previous
                              /\ updates'[j].feature = updates[j].feature
                              /\ updates'[j].status # "none" <=> updates[j].status # "none"
  <2> HIDE DEF i
  <2> QED BY <1>1 DEF UpdateRow, IsRecorded
<1>3. flow' = [flow EXCEPT ![f] = [at |-> "idle", id |-> 0, feature |-> FALSE, by |-> "none", saw |-> 0]]
  BY DEF FlowAt, IdleFlow
<1>4. UpdateTypeOK'
  <2>1. flow' \in [Flows -> FlowRow]
    BY UpdateTypes, FlowWritten, UpdateBounds DEF UpdateInv
  <2>2. script' \in [UpdateIds -> ScriptSteps]
    BY UpdateTypes DEF UpdateInv, ScriptSteps
  <2> QED BY <1>2, <2>1, <2>2 DEF UpdateInv, UpdateTypeOK, UpdateRow, UpdateStatuses, FlowRow, ScriptSteps
<1>5. UpdatesStayOnMain'
  BY <1>2 DEF UpdateInv, UpdatesStayOnMain, IsRecorded
<1>6. HeldIsRecorded'
  BY <1>1, <1>2, <1>3 DEF UpdateInv, UpdateTypeOK, HeldIsRecorded, IsRecorded
<1>7. FlowsSawMain'
  BY <1>3, UpdateBounds DEF UpdateInv, UpdateTypeOK, FlowsSawMain
<1> QED BY <1>4, <1>5, <1>6, <1>7 DEF UpdateInv

\* A new record speaks of commits of origin/main, and is the last.
LEMMA RecordAdded ==
  ASSUME UpdateInv, NEW f \in Flows, NEW new \in UpdateIds, new = LatestUpdate + 1,
         updates' = [updates EXCEPT ![new] = [status |-> "pending", target |-> Wanted(flow[f]),
                                              previous |-> Current(flow[f]), feature |-> flow[f].feature]],
         flow' = FlowAt(f, "execute", new),
         UNCHANGED <<origin, head, script, runtimeUp, updateEvents>>
  PROVE  UpdateInv'
<1> DEFINE row == [status |-> "pending", target |-> Wanted(flow[f]), previous |-> Current(flow[f]),
                   feature |-> flow[f].feature]
<1>1. updates \in [UpdateIds -> UpdateRow] /\ origin \in 0..MaxCommits /\ head \in 0..MaxCommits
      /\ flow[f] \in FlowRow /\ head <= origin /\ flow[f].saw <= origin
      /\ (flow[f].feature => flow[f].by # "poll")
  BY UpdateTypes DEF UpdateInv, UpdatesStayOnMain, FlowsSawMain
<1>11. /\ Wanted(flow[f]) \in 0..MaxCommits /\ Current(flow[f]) \in 0..MaxCommits
       /\ Wanted(flow[f]) <= origin /\ Current(flow[f]) <= origin
       /\ flow[f].feature => Current(flow[f]) <= Wanted(flow[f])
  BY <1>1, UpdateBounds DEF Wanted, Current, FlowRow
<1>2. /\ row \in UpdateRow /\ row.status # "none" /\ row.target <= origin /\ row.previous <= origin
      /\ row.feature => row.previous <= row.target
  BY <1>1, <1>11 DEF UpdateRow, UpdateStatuses, FlowRow
<1> HIDE DEF row
<1>3. updates' = [updates EXCEPT ![new] = row]
  BY DEF row
<1>4. updates' \in [UpdateIds -> UpdateRow] /\ updates'[new] = row
      /\ \A j \in UpdateIds \ {new} : updates'[j] = updates[j]
  BY <1>1, <1>2, <1>3
<1>5. flow' = [flow EXCEPT ![f] = [at |-> "execute", id |-> new, feature |-> FALSE, by |-> "none", saw |-> 0]]
  BY DEF FlowAt, IdleFlow
<1>6. UpdateTypeOK'
  <2>1. flow' \in [Flows -> FlowRow]
    <3>1. new \in 0 .. MaxUpdates
      BY UpdateBounds DEF UpdateIds
    <3> QED BY <3>1, UpdateTypes, FlowWritten DEF UpdateInv
  <2> QED BY <1>4, <2>1 DEF UpdateInv, UpdateTypeOK, UpdateRow, UpdateStatuses, FlowRow
<1>7. \A j \in UpdateIds : IsRecorded(j) => j < new
  BY LatestIsLargest DEF UpdateIds
<1>8. \A j \in UpdateIds : j < new => IsRecorded(j)
  <2> SUFFICES ASSUME NEW j \in UpdateIds, j < new PROVE IsRecorded(j)
    OBVIOUS
  <2>1. j <= LatestUpdate /\ LatestUpdate \in UpdateIds /\ IsRecorded(LatestUpdate)
    BY LatestIsLargest, UpdateBounds DEF UpdateIds
  <2>2. j = LatestUpdate \/ j < LatestUpdate
    BY <2>1 DEF UpdateIds
  <2> QED BY <2>1, <2>2 DEF UpdateInv, UpdatesStayOnMain
<1>9. UpdatesStayOnMain'
  <2>1. ASSUME NEW i \in UpdateIds
        PROVE  /\ updates'[i].previous <= origin' /\ updates'[i].target <= origin'
               /\ updates'[i].feature => updates'[i].previous <= updates'[i].target
    BY <1>1, <1>2, <1>4, <2>1 DEF UpdateInv, UpdatesStayOnMain
  <2>2. ASSUME NEW i \in UpdateIds, NEW j \in UpdateIds, i < j, updates'[j].status # "none"
        PROVE  updates'[i].status # "none"
    <3>1. i # new
      BY <1>4, <1>7, <2>2 DEF IsRecorded, UpdateIds
    <3>2. CASE j = new
      BY <1>2, <1>4, <1>8, <2>2, <3>1, <3>2 DEF IsRecorded, UpdateInv, UpdatesStayOnMain
    <3>3. CASE j # new
      BY <1>4, <2>2, <3>1, <3>3 DEF IsRecorded, UpdateInv, UpdatesStayOnMain
    <3> QED BY <3>2, <3>3
  <2> QED BY <1>1, <2>1, <2>2 DEF UpdatesStayOnMain, IsRecorded
<1>10. HeldIsRecorded'
  BY <1>2, <1>4, <1>5 DEF UpdateInv, UpdateTypeOK, HeldIsRecorded, IsRecorded
<1>12. FlowsSawMain'
  BY <1>5, UpdateBounds DEF UpdateInv, UpdateTypeOK, FlowsSawMain
<1> QED BY <1>6, <1>9, <1>10, <1>12 DEF UpdateInv

\* Steps of a script and of the world, which write no record.
LEMMA CheckoutMoves ==
  ASSUME UpdateInv, UNCHANGED updates, runtimeUp' \in BOOLEAN,
         flow' \in {flow, [g \in Flows |-> IdleFlow]}, updateEvents' \in 0 .. MaxUpdateEvents,
         origin' \in 0 .. MaxCommits, head' \in 0 .. MaxCommits, origin <= origin', head' <= origin',
         \/ UNCHANGED script
         \/ \E i \in UpdateIds, to \in {"none", "merge", "stop", "start", "health", "stopAgain",
                                        "reset", "restart"} :
              script[i] # "none" /\ script' = [script EXCEPT ![i] = to]
  PROVE  UpdateInv'
<1>1. updates \in [UpdateIds -> UpdateRow] /\ origin \in 0..MaxCommits
  BY DEF UpdateInv, UpdateTypeOK, UpdateRow, UpdateStatuses
<1>2. UpdateTypeOK'
  <2>1. flow' \in [Flows -> FlowRow]
    BY UpdateTypes, IdleTyped DEF UpdateInv
  <2>2. script' \in [UpdateIds -> ScriptSteps]
    BY UpdateTypes DEF UpdateInv, ScriptSteps
  <2> QED BY <1>1, <2>1, <2>2 DEF UpdateInv, UpdateTypeOK, UpdateRow, UpdateStatuses, FlowRow, ScriptSteps
<1>3. UpdatesStayOnMain'
  <2>1. ASSUME NEW i \in UpdateIds PROVE updates[i].target <= origin' /\ updates[i].previous <= origin'
    <3>1. /\ updates[i].target \in 0..MaxCommits /\ updates[i].target <= origin
          /\ updates[i].previous \in 0..MaxCommits /\ updates[i].previous <= origin
      BY <1>1, <2>1 DEF UpdateInv, UpdatesStayOnMain, UpdateRow
    <3> QED BY <1>1, <3>1, UpdateBounds
  <2> QED BY <2>1 DEF UpdateInv, UpdatesStayOnMain, IsRecorded
<1>4. HeldIsRecorded'
  BY DEF UpdateInv, UpdateTypeOK, HeldIsRecorded, IsRecorded, IdleFlow
<1>5. FlowsSawMain'
  <2> SUFFICES ASSUME NEW f \in Flows PROVE flow'[f].saw <= origin' /\ (flow'[f].feature => flow'[f].by # "poll")
    BY DEF FlowsSawMain
  <2>1. flow[f] \in FlowRow /\ flow[f].saw <= origin /\ (flow[f].feature => flow[f].by # "poll")
    BY UpdateTypes DEF UpdateInv, FlowsSawMain
  <2>2. flow[f].saw <= origin'
    BY <1>1, <2>1, UpdateBounds DEF FlowRow
  <2>3. 0 <= origin'
    BY UpdateBounds
  <2> QED BY <2>1, <2>2, <2>3 DEF IdleFlow
<1> QED BY <1>2, <1>3, <1>4, <1>5 DEF UpdateInv

LEMMA FlowStepsSound ==
  ASSUME UpdateInv, NEW f \in Flows,
         FlowStep(f) \/ GitFails(f) \/ \E byFeature \in BOOLEAN : UpdateRequested(f, byFeature)
  PROVE  UpdateInv'
<1>0. updateEvents \in 0 .. MaxUpdateEvents
  BY DEF UpdateInv, UpdateTypeOK
<1>1. UpdateEvent => updateEvents' \in 0 .. MaxUpdateEvents
  BY <1>0, UpdateBounds DEF UpdateEvent
<1>11. origin \in 0..MaxCommits /\ head \in 0..MaxCommits /\ head <= origin /\ 0 \in 0..MaxCommits
       /\ 0 <= origin /\ 0 \in 0 .. MaxUpdates
  BY UpdateBounds DEF UpdateInv, UpdateTypeOK, UpdatesStayOnMain
<1>2. ASSUME NEW byFeature \in BOOLEAN, NEW by \in {"poll", "request"}, NEW saw \in 0..MaxCommits,
             saw <= origin, byFeature => by # "poll",
             flow' = FlowTriggers(f, by, saw, byFeature),
             UNCHANGED <<origin, head, updates, script, runtimeUp>>,
             updateEvents' \in 0 .. MaxUpdateEvents
      PROVE  UpdateInv'
  <2> DEFINE row == [at |-> "trigger", id |-> 0, feature |-> byFeature, by |-> by, saw |-> saw]
  <2>1. row \in FlowRow /\ row.at \notin {"settle", "execute"} /\ row.saw <= origin
        /\ (row.feature => row.by # "poll")
    BY <1>2, <1>11 DEF FlowRow
  <2>2. flow' = [flow EXCEPT ![f] = row]
    BY <1>2 DEF FlowTriggers
  <2> HIDE DEF row
  <2> QED BY <1>2, <2>1, <2>2, FlowMoves
<1>3. ASSUME NEW i \in 0 .. MaxUpdates, NEW at \in {"idle", "settle", "execute", "check"},
             at \in {"settle", "execute"} => i \in UpdateIds /\ IsRecorded(i), flow' = FlowAt(f, at, i),
             UNCHANGED <<origin, head, updates, script, runtimeUp>>,
             updateEvents' \in 0 .. MaxUpdateEvents
      PROVE  UpdateInv'
  <2> DEFINE row == [at |-> at, id |-> i, feature |-> FALSE, by |-> "none", saw |-> 0]
  <2>1. row \in FlowRow /\ (row.at \in {"settle", "execute"} => row.id \in UpdateIds /\ IsRecorded(row.id))
        /\ row.saw <= origin /\ (row.feature => row.by # "poll")
    BY <1>3, <1>11 DEF FlowRow
  <2>2. flow' = [flow EXCEPT ![f] = row]
    BY <1>3 DEF FlowAt
  <2> HIDE DEF row
  <2> QED BY <1>3, <2>1, <2>2, FlowMoves
<1>4. CASE PollStarts(f)
  <2>1. LatestUpdate \in 0 .. MaxUpdates /\ (LatestUpdate # 0 => LatestUpdate \in UpdateIds
                                              /\ IsRecorded(LatestUpdate))
    BY LatestIsLargest, UpdateBounds DEF UpdateIds
  <2>2. PollContinues(LatestUpdate) \in {"settle", "execute", "check"}
        /\ (PollContinues(LatestUpdate) # "check" => LatestUpdate # 0)
    BY DEF PollContinues
  <2> QED BY <1>0, <1>3, <1>4, <2>1, <2>2 DEF PollStarts
<1>5. CASE PollSettles(f)
  <2>1. PICK status \in UpdateStatuses \ {"none"} : updates' = WithUpdate(flow[f].id, status)
    BY <1>5 DEF PollSettles, UpdateStatuses
  <2> QED BY <1>5, <2>1, RecordMoves DEF PollSettles
<1>6. CASE PollChecks(f)
  <2>1. \/ flow' = FlowAt(f, "idle", 0)
        \/ flow' = FlowTriggers(f, "poll", origin, FALSE)
    BY <1>6 DEF PollChecks
  <2>2. UNCHANGED <<origin, head, updates, script, runtimeUp>> /\ updateEvents' \in 0 .. MaxUpdateEvents
    BY <1>0, <1>6 DEF PollChecks
  <2>3. origin \in 0..MaxCommits /\ origin <= origin
    BY <1>11
  <2>4. CASE flow' = FlowAt(f, "idle", 0)
    BY <1>3, <1>11, <2>2, <2>4
  <2>5. CASE flow' = FlowTriggers(f, "poll", origin, FALSE)
    BY <1>2, <2>2, <2>3, <2>5
  <2> QED BY <2>1, <2>4, <2>5
<1>7. CASE GitFails(f)
  BY <1>1, <1>3, <1>7, <1>11 DEF GitFails
<1>8. ASSUME NEW byFeature \in BOOLEAN, UpdateRequested(f, byFeature) PROVE UpdateInv'
  BY <1>1, <1>2, <1>8, <1>11 DEF UpdateRequested
<1>9. CASE TriggerUpdate(f)
  <2> DEFINE existing == ExistingUpdate(flow[f])
  <2>1. CASE flow' = FlowAt(f, "idle", 0) /\ UNCHANGED updates
    BY <1>0, <1>3, <1>9, <1>11, <2>1 DEF TriggerUpdate
  <2>2. CASE existing.id # 0 /\ existing.run /\ flow' = FlowAt(f, "execute", existing.id)
             /\ UNCHANGED updates
    <3>1. existing.id \in UpdateIds /\ IsRecorded(existing.id)
      <4> DEFINE ofFeature == {i \in UpdateIds : flow[f].feature /\ updates[i].feature}
                 open == {i \in UpdateIds : IsOpenUpdate(i) /\ updates[i].target = Wanted(flow[f])}
                 oneOf == CHOOSE i \in ofFeature : TRUE
                 lastOf == CHOOSE i \in open : \A j \in open : j <= i
      <4>1. \/ existing.id = 0 \/ ~existing.run
            \/ ofFeature # {} /\ existing.id = oneOf /\ updates[oneOf].status = "pending"
            \/ open # {} /\ existing.id = lastOf /\ updates[lastOf].status = "pending"
        <5> DEFINE settled == /\ LatestUpdate # 0 /\ updates[LatestUpdate].target = Wanted(flow[f])
                              /\ IsOpenUpdate(LatestUpdate) \/ Current(flow[f]) = Wanted(flow[f])
        <5>1. existing = IF settled THEN [id |-> LatestUpdate, run |-> FALSE]
                         ELSE IF ofFeature # {} THEN [id |-> oneOf, run |-> updates[oneOf].status = "pending"]
                         ELSE IF open # {} THEN [id |-> lastOf, run |-> updates[lastOf].status = "pending"]
                         ELSE [id |-> 0, run |-> TRUE]
          BY DEF ExistingUpdate
        <5> HIDE DEF existing, settled, ofFeature, open, oneOf, lastOf
        <5> QED BY <5>1
      <4>2. ofFeature # {} => oneOf \in UpdateIds
        OBVIOUS
      <4>3. open # {} => lastOf \in UpdateIds
        <5> SUFFICES ASSUME open # {} PROVE lastOf \in UpdateIds
          OBVIOUS
        <5>1. \E m \in open : \A j \in open : j <= m
          <6>1. MaxUpdates \in Nat /\ open \in SUBSET (0 .. MaxUpdates)
            BY UpdateBounds DEF UpdateIds
          <6> HIDE DEF open
          <6> QED BY <6>1, LastOne
        <5>2. lastOf \in open
          <6> HIDE DEF open
          <6> QED BY <5>1
        <5> QED BY <5>2
      <4> HIDE DEF existing, oneOf, lastOf, open, ofFeature
      <4>4. \E i \in UpdateIds : existing.id = i /\ updates[i].status = "pending"
        BY <2>2, <4>1, <4>2, <4>3
      <4> QED BY <4>4 DEF IsRecorded
    <3>2. existing.id \in 0 .. MaxUpdates
      BY <3>1, UpdateBounds DEF UpdateIds
    <3> HIDE DEF existing
    <3> QED BY <1>0, <1>3, <1>9, <2>2, <3>1, <3>2 DEF TriggerUpdate
  <2>3. CASE /\ existing.id = 0 /\ LatestUpdate + 1 \in UpdateIds
             /\ updates' = [updates EXCEPT ![LatestUpdate + 1] =
                              [status |-> "pending", target |-> Wanted(flow[f]),
                               previous |-> Current(flow[f]), feature |-> flow[f].feature]]
             /\ flow' = FlowAt(f, "execute", LatestUpdate + 1)
    BY <1>9, <2>3, RecordAdded DEF TriggerUpdate
  <2> QED BY <1>9, <2>1, <2>2, <2>3 DEF TriggerUpdate
<1>10. CASE ExecuteUpdate(f)
  BY <1>10, RecordMoves DEF ExecuteUpdate, UpdateStatuses
<1> QED BY <1>4, <1>5, <1>6, <1>7, <1>8, <1>9, <1>10 DEF FlowStep

LEMMA ScriptStepsSound ==
  ASSUME UpdateInv, NEW i \in UpdateIds, ScriptRuns(i)
  PROVE  UpdateInv'
<1>1. /\ origin \in 0 .. MaxCommits /\ head \in 0 .. MaxCommits /\ head <= origin /\ origin <= origin
      /\ updateEvents \in 0 .. MaxUpdateEvents /\ runtimeUp \in BOOLEAN
      /\ updates[i].previous \in 0 .. MaxCommits /\ updates[i].previous <= origin
  BY UpdateBounds DEF UpdateInv, UpdateTypeOK, UpdatesStayOnMain
<1>3. /\ UNCHANGED <<origin, updates, updateEvents>> /\ runtimeUp' \in BOOLEAN
      /\ head' \in {head, origin, updates[i].previous} /\ flow' \in {flow, [g \in Flows |-> IdleFlow]}
      /\ \E to \in {"none", "merge", "stop", "start", "health", "stopAgain", "reset", "restart"} :
           script[i] # "none" /\ script' = [script EXCEPT ![i] = to]
  BY <1>1 DEF ScriptRuns, ScriptMerges, ScriptStops, ScriptStarts, ScriptSeesHealth, ScriptResets,
              ScriptGivesUp, ScriptStep, NoFlows
<1> QED BY <1>1, <1>3, CheckoutMoves

LEMMA WorldStepsSound ==
  ASSUME UpdateInv, CommitPushed \/ RuntimeCrashes \/ RuntimeStarted
  PROVE  UpdateInv'
<1>1. /\ origin \in 0 .. MaxCommits /\ head \in 0 .. MaxCommits /\ head <= origin
      /\ updateEvents \in 0 .. MaxUpdateEvents
  BY DEF UpdateInv, UpdateTypeOK, UpdatesStayOnMain
<1>2. origin' \in 0 .. MaxCommits /\ origin <= origin' /\ head' = head /\ head <= origin'
      /\ updateEvents' \in 0 .. MaxUpdateEvents /\ UNCHANGED <<updates, script>>
  BY <1>1, UpdateBounds DEF CommitPushed, RuntimeCrashes, RuntimeStarted, UpdateEvent
<1>3. runtimeUp' \in BOOLEAN /\ flow' \in {flow, [g \in Flows |-> IdleFlow]}
  BY DEF CommitPushed, RuntimeCrashes, RuntimeStarted, NoFlows, UpdateInv, UpdateTypeOK
<1> QED BY <1>1, <1>2, <1>3, CheckoutMoves

LEMMA UpdateBegins == UpdateInit => UpdateInv
BY UpdateBounds DEF UpdateInit, UpdateStarts, UpdateInv, UpdateTypeOK, UpdatesStayOnMain,
     HeldIsRecorded, FlowsSawMain, IsRecorded, NoUpdate, IdleFlow, UpdateIds

LEMMA UpdateInvariant == UpdateInit /\ [][UpdateNext]_updateVars => []UpdateInv
<1>1. UpdateInv /\ [UpdateNext]_updateVars => UpdateInv'
  <2> SUFFICES ASSUME UpdateInv, [UpdateNext]_updateVars PROVE UpdateInv'
    OBVIOUS
  <2>1. CASE UNCHANGED updateVars
    BY <2>1 DEF updateVars, UpdateInv, UpdateTypeOK, UpdatesStayOnMain, HeldIsRecorded, FlowsSawMain, IsRecorded
  <2> QED BY <2>1, FlowStepsSound, ScriptStepsSound, WorldStepsSound DEF UpdateNext
<1> QED BY <1>1, UpdateBegins, PTL

\* Every record, flow and script of an update keeps its type.
THEOREM UpdateTypeCorrect == UpdateInit /\ [][UpdateNext]_updateVars => []UpdateTypeOK
<1>1. UpdateInv => UpdateTypeOK
  BY DEF UpdateInv
<1> QED BY <1>1, UpdateInvariant, PTL

\* Polls, requests and scripts that act on records they read before an await, roll one another
\* back or die, never take the program ahead of origin/main and record no commit that is not there;
\* an update for a Feature asks for nothing older than what it would go back to.  One recorded by a
\* poll may (triggerUpdate, executeSelfUpdate, Apply-MaestroUpdate).
THEOREM UpdatesStayOnMainHolds == UpdateInit /\ [][UpdateNext]_updateVars => []UpdatesStayOnMain
<1>1. UpdateInv => UpdatesStayOnMain
  BY DEF UpdateInv
<1> QED BY <1>1, UpdateInvariant, PTL
=============================================================================
