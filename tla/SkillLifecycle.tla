--------------------------- MODULE SkillLifecycle ---------------------------
(***************************************************************************)
(* src/skills: the versions of one Skill - registered from the catalog on  *)
(* disk at start, evaluated, approved, activated, rolled back, archived    *)
(* and restored by people or by the Curator - and what the steps of one    *)
(* Goal load of it.  Skills share nothing, so one stands for all.          *)
(*                                                                         *)
(* Every operation is synchronous: one action each.  The incidents and     *)
(* automatic promotions of the Curator are left out: nothing in the        *)
(* program records an incident.  So are "rejected" versions and rejected   *)
(* drafts: no command leads to them.                                       *)
(***************************************************************************)
EXTENDS Naturals

CONSTANT SkillVersions   \* content hashes the catalog may hold, none of them 0

ASSUME VersionsAreHashes == 0 \notin SkillVersions

VARIABLES
  skillOwner,    \* skills.owner: "system" is a built-in Skill
  version,       \* skill_versions: status and the latest skill_evaluations row
  activeSkill,   \* skills.active_skill_version_id, 0 for NULL
  approver,      \* who approved each version (history)
  draft,         \* skill_proposals of the Skill: "none", "requested", "linked"
  skillsEnabled, \* skill_runtime_settings
  pins,          \* goal_skill_pins of the running Goal
  loaded,        \* the version its last step loaded, 0 when none
  skillsUp       \* bootstrapSkills did not throw

skillVars == <<skillOwner, version, activeSkill, approver, draft, skillsEnabled, pins,
               loaded, skillsUp>>

Unregistered == [status |-> "none", eval |-> "none"]
IsStatus(v, s) == version[v].status = s
WithVersionStatus(vs, v, s) == [vs EXCEPT ![v].status = s]

-----------------------------------------------------------------------------
\* persistence.ts

\* recordSkillEvaluation at the end of SkillEvaluationHarness.evaluate: a
\* candidate that passes becomes "evaluated".
Evaluated(vs, v, outcome) ==
  [vs EXCEPT ![v] = [eval |-> outcome,
                     status |-> IF outcome = "passed" /\ @.status = "candidate"
                                THEN "evaluated" ELSE @.status]]

Promotable(vs, v) == vs[v].status \in {"approved", "active"} /\ vs[v].eval = "passed"
PromotedBeside(vs, active, v) == WithVersionStatus(vs, v, "active")
\* promoteVersion: the version it replaces goes back to "approved".
Promoted(vs, active, v) ==
  WithVersionStatus(IF active \in SkillVersions \ {v}
                    THEN WithVersionStatus(vs, active, "approved") ELSE vs, v, "active")

Promote(v) ==
  /\ Promotable(version, v)
  /\ version' = Promoted(version, activeSkill, v)
  /\ activeSkill' = v
  /\ UNCHANGED <<skillOwner, approver, draft, skillsEnabled, pins, loaded, skillsUp>>

-----------------------------------------------------------------------------
\* Start of the program: bootstrap.ts

Registered(v) ==
  IF IsStatus(v, "none") THEN WithVersionStatus(version, v, "candidate") ELSE version

\* A built-in Skill is evaluated, approved and activated on the way; a
\* failed evaluation stops the program.  The Goal goes on after the restart.
Boot(v) ==
  LET registered == Registered(v)
      builtIn == skillOwner = "system"
  IN \E outcome \in {"passed", "failed"} :
       LET evaluated == IF registered[v].status = "candidate"
                        THEN Evaluated(registered, v, outcome) ELSE registered
           approved == IF evaluated[v].status = "evaluated"
                       THEN WithVersionStatus(evaluated, v, "approved") ELSE evaluated
       IN /\ IF builtIn THEN TRUE ELSE outcome = "passed"
          /\ UNCHANGED <<skillOwner, draft, skillsEnabled, pins, loaded>>
          /\ CASE ~builtIn -> /\ version' = registered
                              /\ skillsUp' = TRUE
                              /\ UNCHANGED <<activeSkill, approver>>
               [] builtIn /\ evaluated[v].status = "candidate" ->
                    version' = evaluated /\ skillsUp' = FALSE /\ UNCHANGED <<activeSkill, approver>>
               [] OTHER ->
                    /\ approver' = IF evaluated[v].status = "evaluated"
                                   THEN [approver EXCEPT ![v] = "bootstrap"] ELSE approver
                    /\ IF approved[v].status = "approved" /\ ~Promotable(approved, v)
                       THEN version' = approved /\ skillsUp' = FALSE /\ UNCHANGED activeSkill
                       ELSE /\ skillsUp' = TRUE
                            /\ IF approved[v].status = "approved"
                               THEN version' = Promoted(approved, activeSkill, v) /\ activeSkill' = v
                               ELSE version' = approved /\ UNCHANGED activeSkill

-----------------------------------------------------------------------------
\* Commands: lifecycle.ts and application-commands.ts

EvaluateVersion(v) ==
  /\ ~IsStatus(v, "none")
  /\ \E outcome \in {"passed", "failed"} : version' = Evaluated(version, v, outcome)
  /\ UNCHANGED <<skillOwner, activeSkill, approver, draft, skillsEnabled, pins, loaded, skillsUp>>

ApproveVersion(v) ==
  /\ IsStatus(v, "evaluated")
  /\ version' = WithVersionStatus(version, v, "approved")
  /\ approver' = [approver EXCEPT ![v] = "human"]
  /\ UNCHANGED <<skillOwner, activeSkill, draft, skillsEnabled, pins, loaded, skillsUp>>

ActivateVersion(v) == Promote(v)
RollbackVersion(v) == activeSkill # v /\ IsStatus(v, "approved") /\ Promote(v)

RestoreVersion(v) ==
  /\ IsStatus(v, "retired")
  /\ version' = WithVersionStatus(version, v, "approved")
  /\ UNCHANGED <<skillOwner, activeSkill, approver, draft, skillsEnabled, pins, loaded, skillsUp>>

\* archiveSkillVersion by a person, or by the Curator when the Skill is stale
\* (applyAutomaticArchival; only Skills an agent owns).
ArchiveVersion(v, actor) ==
  /\ activeSkill = v
  /\ actor = "curator" => skillOwner = "agent"
  /\ version' = WithVersionStatus(version, v, "retired")
  /\ activeSkill' = 0
  /\ UNCHANGED <<skillOwner, approver, draft, skillsEnabled, pins, loaded, skillsUp>>

\* createSkillProposal of an approved improvement; reconcileSkillProposalDrafts
\* links it to a candidate of the agent's Skill.
RequestDraft ==
  /\ draft = "none"
  /\ draft' = "requested"
  /\ UNCHANGED <<skillOwner, version, activeSkill, approver, skillsEnabled, pins, loaded, skillsUp>>
LinkDraft ==
  /\ draft = "requested" /\ skillOwner = "agent"
  /\ \E v \in SkillVersions : IsStatus(v, "candidate")
  /\ draft' = "linked"
  /\ UNCHANGED <<skillOwner, version, activeSkill, approver, skillsEnabled, pins, loaded, skillsUp>>

SwitchSkills ==
  /\ skillsEnabled' = ~skillsEnabled
  /\ UNCHANGED <<skillOwner, version, activeSkill, approver, draft, pins, loaded, skillsUp>>

-----------------------------------------------------------------------------
\* The running Goal: prepareContext and pinGoalSkill

\* The pins that are still active come first, then the active version.
SelectedVersions ==
  LET pinned == {v \in pins : IsStatus(v, "active")}
  IN IF pinned # {} THEN pinned ELSE {v \in {activeSkill} \ {0} : IsStatus(v, "active")}

StepLoadsSkill ==
  /\ \/ /\ skillsEnabled /\ SelectedVersions # {}
        /\ loaded' \in SelectedVersions
        /\ pins' = pins \cup SelectedVersions
     \/ /\ ~(skillsEnabled /\ SelectedVersions # {})
        /\ loaded' = 0 /\ UNCHANGED pins
  /\ UNCHANGED <<skillOwner, version, activeSkill, approver, draft, skillsEnabled, skillsUp>>

NextGoalStarts ==
  /\ pins' = {} /\ loaded' = 0
  /\ UNCHANGED <<skillOwner, version, activeSkill, approver, draft, skillsEnabled, skillsUp>>

-----------------------------------------------------------------------------
SkillInit ==
  /\ skillOwner \in {"agent", "user", "system"}
  /\ version = [v \in SkillVersions |-> Unregistered]
  /\ activeSkill = 0
  /\ approver = [v \in SkillVersions |-> "nobody"]
  /\ draft = "none"
  /\ skillsEnabled \in BOOLEAN
  /\ pins = {}
  /\ loaded = 0
  /\ skillsUp = FALSE

SkillNext ==
  \/ \E v \in SkillVersions : Boot(v)
  \/ /\ skillsUp
     /\ \/ \E v \in SkillVersions :
             \/ EvaluateVersion(v)
             \/ ApproveVersion(v)
             \/ ActivateVersion(v)
             \/ RollbackVersion(v)
             \/ RestoreVersion(v)
             \/ \E actor \in {"human", "curator"} : ArchiveVersion(v, actor)
        \/ RequestDraft
        \/ LinkDraft
        \/ SwitchSkills
        \/ StepLoadsSkill
        \/ NextGoalStarts

SkillSpec == SkillInit /\ [][SkillNext]_skillVars

-----------------------------------------------------------------------------
VersionRow == [status : {"none", "candidate", "evaluated", "approved", "active", "retired"},
               eval : {"none", "passed", "failed"}]

\* Types of all variables.
SkillTypeOK ==
  /\ skillOwner \in {"agent", "user", "system"}
  /\ version \in [SkillVersions -> VersionRow]
  /\ activeSkill \in SkillVersions \cup {0}
  /\ approver \in [SkillVersions -> {"nobody", "human", "bootstrap"}]
  /\ draft \in {"none", "requested", "linked"}
  /\ pins \subseteq SkillVersions
  /\ loaded \in SkillVersions \cup {0}
  /\ skillsEnabled \in BOOLEAN /\ skillsUp \in BOOLEAN

\* Through activations, rollbacks, archivals, restores and restarts, the
\* version whose status is "active" is the one the Skill points at and there
\* is no other; and whatever a Goal pinned was approved first, by a person
\* unless the Skill is built in (promoteVersion, archiveSkillVersion,
\* pinGoalSkill of src/skills/persistence.ts).
ServedSkillIsVetted ==
  /\ {v \in SkillVersions : IsStatus(v, "active")} = {activeSkill} \ {0}
  /\ \A v \in pins \cup ({activeSkill} \ {0}) :
       approver[v] # "nobody" /\ (skillOwner # "system" => approver[v] = "human")
=============================================================================
