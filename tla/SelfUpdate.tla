----------------------------- MODULE SelfUpdate -----------------------------
(***************************************************************************)
(* src/runtime/self-update.ts and scripts/maestro-runtime.ps1: the program *)
(* updates itself.  A poll or a request records an update and launches a   *)
(* detached script, which merges origin/main, stops the program, starts it *)
(* again and goes back to the previous commit when it does not get         *)
(* healthy; the poll of the program that runs by then settles the record.  *)
(*                                                                         *)
(* A poll does not exclude another poll nor a request: each is a flow of   *)
(* its own, which acts on the record it read before its last await.        *)
(***************************************************************************)
EXTENDS Naturals

CONSTANTS
  Flows,            \* polls and requests at the same time
  MaxCommits,       \* commits pushed to origin/main
  MaxUpdates,       \* rows of runtime_updates
  MaxUpdateEvents   \* requests, crashes, and git commands that fail

ASSUME UpdateBounds ==
  MaxCommits \in Nat /\ MaxUpdates \in Nat \ {0} /\ MaxUpdateEvents \in Nat

VARIABLES
  origin, head,   \* commits: refs/remotes/origin/main, and HEAD of the checkout
  updates,        \* runtime_updates by id
  flow,           \* what each poll or request is at, and the record it holds;
                  \* on its way to triggerUpdate, the commit it saw before
  script,         \* the scripts launched, by the update they were launched for
  runtimeUp,      \* the program runs
  updateEvents

updateVars == <<origin, head, updates, flow, script, runtimeUp, updateEvents>>

UpdateIds == 1..MaxUpdates
NoUpdate == [status |-> "none", target |-> 0, previous |-> 0, feature |-> FALSE]
IdleFlow == [at |-> "idle", id |-> 0, feature |-> FALSE, by |-> "none", saw |-> 0]
LatestUpdate == IF updates[1].status = "none" THEN 0
                ELSE CHOOSE i \in UpdateIds :
                       /\ updates[i].status # "none"
                       /\ \A j \in UpdateIds : updates[j].status # "none" => j <= i
IsOpenUpdate(i) == i # 0 /\ updates[i].status \in {"pending", "in_progress"}
WithUpdate(i, status) == [updates EXCEPT ![i].status = status]
FlowAt(f, at, id) ==
  [flow EXCEPT ![f] = [at |-> at, id |-> id, feature |-> FALSE, by |-> "none", saw |-> 0]]
FlowTriggers(f, by, saw, byFeature) ==
  [flow EXCEPT ![f] = [at |-> "trigger", id |-> 0, feature |-> byFeature, by |-> by, saw |-> saw]]
UpdateEvent == updateEvents < MaxUpdateEvents /\ updateEvents' = updateEvents + 1

-----------------------------------------------------------------------------
\* reconcileLatestUpdate

\* What a poll does with the latest record: settle it, execute it, or look
\* for commits.
PollContinues(i) ==
  CASE i # 0 /\ updates[i].status = "in_progress" -> "settle"
    [] i # 0 /\ updates[i].status = "pending" -> "execute"
    [] OTHER -> "check"

PollStarts(f) ==
  /\ runtimeUp /\ flow[f].at = "idle"
  /\ flow' = FlowAt(f, PollContinues(LatestUpdate), LatestUpdate)
  /\ UNCHANGED <<origin, head, updates, script, runtimeUp, updateEvents>>

\* The record it read may have been settled by now: it is written all the same.
PollSettles(f) ==
  /\ flow[f].at = "settle"
  /\ flow' = FlowAt(f, "idle", 0)
  /\ LET r == updates[flow[f].id]
     IN updates' = WithUpdate(flow[f].id, IF head = r.target THEN "completed"
                                          ELSE IF head = r.previous THEN "rolled_back"
                                          ELSE "failed")
  /\ UNCHANGED <<origin, head, script, runtimeUp, updateEvents>>

PollChecks(f) ==
  /\ flow[f].at = "check"
  /\ flow' = IF origin = head THEN FlowAt(f, "idle", 0) ELSE FlowTriggers(f, "poll", origin, FALSE)
  /\ UNCHANGED <<origin, head, updates, script, runtimeUp, updateEvents>>

\* git fails: the poll's promise rejects and is ignored.
GitFails(f) ==
  /\ flow[f].at \in {"settle", "check", "trigger"} /\ UpdateEvent
  /\ flow' = FlowAt(f, "idle", 0)
  /\ UNCHANGED <<origin, head, updates, script, runtimeUp>>

-----------------------------------------------------------------------------
\* triggerUpdate and enqueueRuntimeUpdate

\* A person asks for the update, or a delivered Feature of the program does.
UpdateRequested(f, byFeature) ==
  /\ runtimeUp /\ flow[f].at = "idle" /\ UpdateEvent
  /\ flow' = FlowTriggers(f, "request", head, byFeature)
  /\ UNCHANGED <<origin, head, updates, script, runtimeUp>>

\* A poll comes with the commit it found on origin/main and reads HEAD once more;
\* a request read HEAD first and then asks for origin/main.
Wanted(row) == IF row.by = "poll" THEN row.saw ELSE origin
Current(row) == IF row.by = "poll" THEN head ELSE row.saw

\* The record a flow ends up with, 0 for a new one.
ExistingUpdate(row) ==
  LET latest == LatestUpdate
      sameTarget == latest # 0 /\ updates[latest].target = Wanted(row)
      ofFeature == {i \in UpdateIds : row.feature /\ updates[i].feature}
      open == {i \in UpdateIds : IsOpenUpdate(i) /\ updates[i].target = Wanted(row)}
      Found(i) == [id |-> i, run |-> updates[i].status = "pending"]
  IN IF sameTarget /\ (IsOpenUpdate(latest) \/ Current(row) = Wanted(row))
     THEN [id |-> latest, run |-> FALSE]
     ELSE IF ofFeature # {} THEN Found(CHOOSE i \in ofFeature : TRUE)
     ELSE IF open # {} THEN Found(CHOOSE i \in open : \A j \in open : j <= i)
     ELSE [id |-> 0, run |-> TRUE]

TriggerUpdate(f) ==
  /\ flow[f].at = "trigger"
  /\ LET existing == ExistingUpdate(flow[f])
         new == LatestUpdate + 1
     IN \/ /\ existing.id # 0
           /\ flow' = IF existing.run THEN FlowAt(f, "execute", existing.id) ELSE FlowAt(f, "idle", 0)
           /\ UNCHANGED updates
        \/ /\ existing.id = 0 /\ new \in UpdateIds
           /\ updates' = [updates EXCEPT ![new] =
                             [status |-> "pending", target |-> Wanted(flow[f]),
                              previous |-> Current(flow[f]), feature |-> flow[f].feature]]
           /\ flow' = FlowAt(f, "execute", new)
        \/ /\ existing.id = 0 /\ new \notin UpdateIds
           /\ flow' = FlowAt(f, "idle", 0) /\ UNCHANGED updates
  /\ UNCHANGED <<origin, head, script, runtimeUp, updateEvents>>

\* executeSelfUpdate, once the Goals are done or 30 seconds have passed.
ExecuteUpdate(f) ==
  /\ flow[f].at = "execute"
  /\ flow' = FlowAt(f, "idle", 0)
  /\ \/ /\ updates' = WithUpdate(flow[f].id, "failed")   \* uncommitted changes
        /\ UNCHANGED script
     \/ /\ updates' = WithUpdate(flow[f].id, "in_progress")
        /\ script[flow[f].id] = "none"
        /\ script' = [script EXCEPT ![flow[f].id] = "merge"]
     \/ /\ updates' = WithUpdate(flow[f].id, "in_progress")   \* two scripts are as one
        /\ script[flow[f].id] # "none" /\ UNCHANGED script
  /\ UNCHANGED <<origin, head, runtimeUp, updateEvents>>

-----------------------------------------------------------------------------
\* Apply-MaestroUpdate

ScriptStep(i, from, to) == script[i] = from /\ script' = [script EXCEPT ![i] = to]
NoFlows == flow' = [f \in Flows |-> IdleFlow]

ScriptMerges(i) ==
  /\ \/ ScriptStep(i, "merge", "stop") /\ head' = origin
     \/ ScriptStep(i, "merge", "none") /\ UNCHANGED head   \* refuses or fails
  /\ UNCHANGED <<origin, updates, flow, runtimeUp, updateEvents>>

ScriptStops(i) ==
  /\ ScriptStep(i, "stop", "start") \/ ScriptStep(i, "stopAgain", "reset")
  /\ runtimeUp' = FALSE /\ NoFlows
  /\ UNCHANGED <<origin, head, updates, updateEvents>>

\* The new program polls before the health check is over, which may then
\* fail and roll it back.
ScriptStarts(i) ==
  /\ ScriptStep(i, "start", "health") \/ ScriptStep(i, "restart", "none")
  /\ runtimeUp' = TRUE
  /\ UNCHANGED <<origin, head, updates, flow, updateEvents>>
ScriptSeesHealth(i) ==
  /\ ScriptStep(i, "health", "none") \/ ScriptStep(i, "health", "stopAgain")
  /\ UNCHANGED <<origin, head, updates, flow, runtimeUp, updateEvents>>
ScriptResets(i) ==
  /\ ScriptStep(i, "reset", "restart")
  /\ head' = updates[i].previous
  /\ UNCHANGED <<origin, updates, flow, runtimeUp, updateEvents>>
\* The previous commit does not start either: nobody runs.
ScriptGivesUp(i) ==
  /\ ScriptStep(i, "restart", "none")
  /\ UNCHANGED <<origin, head, updates, flow, runtimeUp, updateEvents>>

-----------------------------------------------------------------------------
\* The rest of the world

CommitPushed ==
  /\ origin < MaxCommits /\ origin' = origin + 1
  /\ UNCHANGED <<head, updates, flow, script, runtimeUp, updateEvents>>
RuntimeCrashes ==
  /\ runtimeUp /\ UpdateEvent
  /\ runtimeUp' = FALSE /\ NoFlows
  /\ UNCHANGED <<origin, head, updates, script>>
RuntimeStarted ==
  /\ ~runtimeUp
  /\ runtimeUp' = TRUE
  /\ UNCHANGED <<origin, head, updates, flow, script, updateEvents>>

UpdateStarts(up) ==
  /\ origin = 0 /\ head = 0
  /\ updates = [i \in UpdateIds |-> NoUpdate]
  /\ flow = [f \in Flows |-> IdleFlow]
  /\ script = [i \in UpdateIds |-> "none"]
  /\ runtimeUp = up
  /\ updateEvents = 0

UpdateInit == UpdateStarts(TRUE)

FlowStep(f) == \/ PollStarts(f) \/ PollSettles(f) \/ PollChecks(f)
               \/ TriggerUpdate(f) \/ ExecuteUpdate(f)
ScriptRuns(i) == \/ ScriptMerges(i) \/ ScriptStops(i) \/ ScriptStarts(i)
                 \/ ScriptSeesHealth(i) \/ ScriptResets(i) \/ ScriptGivesUp(i)

UpdateNext ==
  \/ \E f \in Flows : \/ FlowStep(f) \/ GitFails(f)
                      \/ \E byFeature \in BOOLEAN : UpdateRequested(f, byFeature)
  \/ \E i \in UpdateIds : ScriptRuns(i)
  \/ CommitPushed \/ RuntimeCrashes \/ RuntimeStarted

\* Timers and promises of the program, and the script's process, go on.  The
\* guards are the ENABLED of the steps, which TLC need not compute.
FlowDue(f) == runtimeUp \/ flow[f].at # "idle"
UpdateFairness ==
  /\ \A f \in Flows : <>[]FlowDue(f) => []<><<FlowStep(f)>>_updateVars
  /\ \A i \in UpdateIds : <>[](script[i] # "none") => []<><<ScriptRuns(i)>>_updateVars

-----------------------------------------------------------------------------
\* Types of all variables.
UpdateTypeOK ==
  /\ origin \in 0..MaxCommits /\ head \in 0..MaxCommits
  /\ updates \in [UpdateIds ->
       [status : {"none", "pending", "in_progress", "completed", "rolled_back", "failed"},
        target : 0..MaxCommits, previous : 0..MaxCommits, feature : BOOLEAN]]
  /\ flow \in [Flows -> [at : {"idle", "settle", "check", "trigger", "execute"},
                         id : 0..MaxUpdates, feature : BOOLEAN,
                         by : {"none", "poll", "request"}, saw : 0..MaxCommits]]
  /\ script \in [UpdateIds -> {"none", "merge", "stop", "start", "health", "stopAgain",
                               "reset", "restart"}]
  /\ runtimeUp \in BOOLEAN
  /\ updateEvents \in 0..MaxUpdateEvents

\* While an update is pending or in progress the backlog autopilot starts
\* nothing (autopilot.ts:101-105).  Unless the program stays down, every
\* update is settled in the end, whatever kills the flow that executes it:
\* a crash, the script of another update, or a rollback.
UpdateSettles == <>[]~runtimeUp \/ []<>~IsOpenUpdate(LatestUpdate)
=============================================================================
