---------------------------- MODULE GoalDelivery ----------------------------
(***************************************************************************)
(* src/goals/delivery.ts: the delivery of a Goal, which GoalRunner takes   *)
(* as one step.  The changes in the worktree become a commit, the branch   *)
(* is pushed and has a draft pull request; git and gh are run one after    *)
(* another.  A delivery that failed, or died, is repeated from its start   *)
(* and must find out how far the last one came.                            *)
(*                                                                         *)
(* Providers work in the worktree between two deliveries only.  People and *)
(* GitHub act at any time.  All commits of a Task have the same message.   *)
(***************************************************************************)
EXTENDS Naturals, Sequences

CONSTANTS
  MaxEdits,           \* bound on what providers change
  MaxPeopleEvents     \* bound on what people, GitHub and crashes do

ASSUME DeliveryBounds == MaxEdits \in Nat /\ MaxPeopleEvents \in Nat

VARIABLES
  kinds,      \* of each edit: work, or what the gates refuse
  edits,      \* edits made
  files,      \* those that are not committed
  commits,    \* of the branch: who made them, and the edits they reach
  hosted,     \* the project has a remote; people pushed to the branch there
  pushed,     \* commits of the branch the remote has
  pulls,      \* its pull requests: their state
  delivery,   \* the delivery at work, and the commit it goes on with
  recorded,   \* what the run's row says: the commit and its URL
  peopleEvents

deliveryVars == <<kinds, edits, files, commits, hosted, pushed, pulls, delivery, recorded, peopleEvents>>
worktree == <<kinds, edits, files, commits>>

NotDelivering == [at |-> "idle", commit |-> 0, url |-> "none"]
NotRecorded == [commit |-> 0, url |-> "none"]

Open == {i \in DOMAIN pulls : pulls[i] = "open"}
Last(s) == s[Len(s)]

OnTo(at) == delivery' = [delivery EXCEPT !.at = at]
Fails == delivery' = NotDelivering
With(url) == delivery' = [delivery EXCEPT !.at = "recording", !.url = url]

\* The subject of the last commit is the message: an earlier delivery made it.
Resumable == commits # <<>> /\ Last(commits).by = "delivery"

\* scanGoalChangesForSecrets and validateStagedDiffWhitespace, over the changes.
Deliverable == \A e \in files : kinds[e] = "work"

\* Staged, committed, its hash read; or some git command fails.
CommitsChanges ==
  /\ delivery.at = "idle"
  /\ \/ /\ files # {} /\ Deliverable
        /\ files' = {}
        /\ commits' = Append(commits, [by |-> "delivery", holds |-> 1 .. edits])
        /\ delivery' = [NotDelivering EXCEPT !.at = "publishing", !.commit = Len(commits')]
     \/ /\ files = {} /\ Resumable
        /\ delivery' = [NotDelivering EXCEPT !.at = "publishing", !.commit = Len(commits)]
        /\ UNCHANGED <<files, commits>>
  /\ UNCHANGED <<kinds, edits, hosted, pushed, pulls, recorded, peopleEvents>>

\* publishGoalBranch.  A push is refused if people pushed; its answer, or that
\* of gh below, may be lost.
Pushes ==
  /\ delivery.at = "publishing"
  /\ \/ ~hosted.there /\ With("local") /\ UNCHANGED pushed
     \/ hosted.there /\ ~hosted.foreign /\ pushed' = Len(commits) /\ (OnTo("listing") \/ Fails)
     \/ hosted.there /\ Fails /\ UNCHANGED pushed
  /\ UNCHANGED <<worktree, hosted, pulls, recorded, peopleEvents>>

OpenIgnored == {}
\* gh pr list
Listed == Open

\* Without gh there is only the branch.
ListsPulls ==
  /\ delivery.at = "listing"
  /\ \/ With("local")
     \/ Fails
     \/ hosted.there /\ Listed # {} /\ With("pull")
     \/ hosted.there /\ Listed = {} /\ OnTo("creating")
  /\ UNCHANGED <<worktree, hosted, pushed, pulls, recorded, peopleEvents>>

CreatesPull ==
  /\ delivery.at = "creating"
  /\ \/ hosted.there /\ pulls' = Append(pulls, "open") /\ (With("pull") \/ Fails)
     \/ (With("local") \/ Fails) /\ UNCHANGED pulls
  /\ UNCHANGED <<worktree, hosted, pushed, recorded, peopleEvents>>

\* updateGoalDelivery
RecordsDelivery ==
  /\ delivery.at = "recording"
  /\ recorded' = [commit |-> delivery.commit, url |-> delivery.url]
  /\ Fails
  /\ UNCHANGED <<worktree, hosted, pushed, pulls, peopleEvents>>

-----------------------------------------------------------------------------
PeopleEvent == peopleEvents < MaxPeopleEvents /\ peopleEvents' = peopleEvents + 1

ProviderEdits ==
  /\ delivery.at = "idle" /\ edits < MaxEdits
  /\ edits' = edits + 1 /\ files' = files \cup {edits'}
  /\ UNCHANGED <<kinds, commits, hosted, pushed, pulls, delivery, recorded, peopleEvents>>

\* A provider repairs what the gates refused.
ProviderRepairs ==
  /\ delivery.at = "idle"
  /\ \E e \in files : kinds[e] # "work" /\ kinds' = [kinds EXCEPT ![e] = "work"]
  /\ UNCHANGED <<edits, files, commits, hosted, pushed, pulls, delivery, recorded, peopleEvents>>

\* A provider commits its own changes.
ProviderCommits ==
  /\ delivery.at = "idle" /\ files # {}
  /\ commits' = Append(commits, [by |-> "provider", holds |-> 1 .. edits]) /\ files' = {}
  /\ UNCHANGED <<kinds, edits, hosted, pushed, pulls, delivery, recorded, peopleEvents>>

PullEnds ==
  /\ PeopleEvent
  /\ \E i \in Open, state \in {"merged", "closed"} : pulls' = [pulls EXCEPT ![i] = state]
  /\ UNCHANGED <<worktree, hosted, pushed, delivery, recorded>>

\* The project gets its remote, loses it, or people push to the branch.
RemoteChanges ==
  /\ PeopleEvent
  /\ \/ hosted' = [hosted EXCEPT !.there = ~@]
     \/ pushed > 0 /\ hosted' = [hosted EXCEPT !.foreign = TRUE]
  /\ UNCHANGED <<worktree, pushed, pulls, delivery, recorded>>

DeliveryLost ==
  /\ PeopleEvent /\ delivery.at # "idle" /\ Fails
  /\ UNCHANGED <<worktree, hosted, pushed, pulls, recorded>>

DeliveryInit ==
  /\ kinds \in [1 .. MaxEdits -> {"work", "secret", "blank"}]
  /\ edits = 0 /\ files = {} /\ commits = <<>>
  /\ hosted \in [there : BOOLEAN, foreign : {FALSE}] /\ pushed = 0 /\ pulls = <<>>
  /\ delivery = NotDelivering /\ recorded = NotRecorded /\ peopleEvents = 0

DeliveryNext ==
  \/ CommitsChanges \/ Pushes \/ ListsPulls \/ CreatesPull \/ RecordsDelivery
  \/ ProviderEdits \/ ProviderRepairs \/ ProviderCommits
  \/ PullEnds \/ RemoteChanges \/ DeliveryLost

DeliverySpec == DeliveryInit /\ [][DeliveryNext]_deliveryVars

-----------------------------------------------------------------------------
BranchCommit == [by : {"delivery", "provider"}, holds : SUBSET (1 .. MaxEdits)]
DeliveryAt == {"idle", "publishing", "listing", "creating", "recording"}
DeliveryURL == {"none", "local", "pull"}
PullState == {"open", "merged", "closed"}

DeliveryTypeOK ==
  /\ kinds \in [1 .. MaxEdits -> {"work", "secret", "blank"}]
  /\ edits \in 0 .. MaxEdits /\ files \subseteq 1 .. edits
  /\ commits \in Seq(BranchCommit)
  /\ hosted \in [there : BOOLEAN, foreign : BOOLEAN] /\ pushed \in 0 .. Len(commits)
  /\ pulls \in Seq(PullState)
  /\ delivery \in [at : DeliveryAt, commit : 0 .. Len(commits), url : DeliveryURL]
  /\ recorded \in [commit : 0 .. Len(commits), url : DeliveryURL]
  /\ peopleEvents \in 0 .. MaxPeopleEvents

\* What a delivery is about to record is a commit that some delivery made, with all
\* that was in the worktree; and a pull request stands for it only if the branch was
\* pushed with that commit.  However often deliveries fail half-way, lose their
\* answers, die and are repeated, no second pull request is opened beside an open one
\* (createGoalDeliveryHandler, publishGoalBranch).
DeliveredIsPublished ==
  /\ \A i, j \in Open : i = j
  /\ delivery.at # "idle" =>
       /\ files = {} /\ commits[delivery.commit].by = "delivery"
       /\ commits[delivery.commit].holds = 1 .. edits
  /\ delivery.url = "pull" => pushed >= delivery.commit /\ pulls # <<>>
=============================================================================
