---------------------------- MODULE MCGoalWork ----------------------------
(* The work of a Goal: the worktree it gets, its phases, what cuts them     *)
(* short, the validation of its changes and their delivery; and the database *)
(* it is written to.  No part reads what another changes; one acts in a      *)
(* behaviour: `focus`.                                                       *)
EXTENDS MCGoalRunner, ProjectRepository, Validation, GoalDelivery,
        DatabaseMigration, LoopGuard

VARIABLE focus

Plain ==
  [python |-> {}, node |-> {}, loose |-> FALSE, unsupported |-> {}, pyTests |-> {},
   tests |-> FALSE, tsconfig |-> {}, vite |-> {}, scripts |-> {}, declares |-> {},
   members |-> {}, lock |-> "none", changed |-> {}, unignores |-> FALSE, approved |-> TRUE,
   npm |-> TRUE]

\* Python alone, with a second project that cannot be prepared, beside a Node
\* application; Node with workspaces, not approved, without npm; ignored in vain.
MCProjects ==
  {[Plain EXCEPT !.python = {"root"}, !.pyTests = {"root"}],
   [Plain EXCEPT !.python = {"root", "pkg"}, !.unsupported = {"pkg"}, !.loose = TRUE],
   [Plain EXCEPT !.python = {"back"}, !.pyTests = {"back"}, !.node = {"front"}, !.lock = "npm",
                 !.declares = {"front"}, !.tsconfig = {"front"}, !.vite = {"front"}],
   [Plain EXCEPT !.node = {"root", "front"}, !.declares = {"front"}, !.members = {"front"},
                 !.lock = "pnpm"],
   [Plain EXCEPT !.node = {"root", "pkg"}, !.declares = {"root", "pkg"}, !.approved = FALSE],
   [Plain EXCEPT !.node = {"pkg"}, !.declares = {"pkg"}, !.scripts = {"test", "build"},
                 !.npm = FALSE],
   [Plain EXCEPT !.loose = TRUE, !.unignores = TRUE]}

\* A new database; one without the later tables and columns; one with the
\* tables of today, the columns of the first and rows of every old form.
MCOldDatabases ==
  {[tables |-> {}, columns |-> {}, stale |-> {}],
   [tables |-> TaskTables \cup GoalTables,
    columns |-> {<<"tasks", "title">>, <<"projects", "sync_state">>},
    stale |-> {"untitled"} \X Rows],
   [tables |-> AllTables, columns |-> {}, stale |-> Kinds \X Rows]}

\* A gate fails without an error, a provider with one.
Text(summary, error) == [summary |-> summary, error |-> error]
MCSays == {Text("tests fail", "1 failed"), Text("claude completed", "")}
MCPassText == Text("checks passed", "")
MCCheckTexts == {Text("lint failed", "")}
MCFaults == {Text("tests fail", "1 failed")} \cup MCCheckTexts
MCIdleText == [p \in {"implementing", "testing", "reviewing"} |-> Text(p, p)]
MCCutText == Text("restarted", "restart")

\* A budget of one step has a ceiling of three.
MCPhaseBudgets == [implementing |-> 2, testing |-> 1, reviewing |-> 1]

\* Bounds: one step of a history is a self-recovery, of a stopped process,
\* blocked, or cut off by a death; and a fourth step comes only where it
\* would be the one beyond a ceiling, after three of its phase.
OddSteps ==
  {i \in 1 .. Len(log) : log[i].free \/ log[i].unseen \/ log[i].status \in {"blocked", "cancelled"}}
OnePhase == Cardinality({log[i].phase : i \in 1 .. Len(log)}) = 1
GuardMoves == GuardNext /\ Cardinality(OddSteps') <= 1 /\ (Len(log') > 3 => OnePhase')

\* Where a part does not act.
GuardAtRest == GuardStarts(FALSE)
RepositoryAtRest == RepoStarts(FALSE) /\ ~origin /\ heads["default"] = {}
ValidationAtRest == ValidationStartsWith(CHOOSE p \in Projects : TRUE)
DeliveryAtRest == DeliveryInit /\ ~hosted.there /\ \A e \in 1 .. MaxEdits : kinds[e] = "work"
MigrationAtRest == MigrationStarts([tables |-> {}, columns |-> {}, stale |-> {}])

OthersAtRest ==
  /\ focus # "runner" => RunnerAtRest
  /\ focus # "repository" => RepositoryAtRest
  /\ focus # "guard" => GuardAtRest
  /\ focus # "validation" => ValidationAtRest
  /\ focus # "delivery" => DeliveryAtRest
  /\ focus # "migration" => MigrationAtRest

MCInit ==
  /\ \/ focus = "runner" /\ Init
     \/ focus = "repository" /\ RepoInit
     \/ focus = "guard" /\ GuardStarts(TRUE)
     \/ focus = "validation" /\ ValidationInit
     \/ focus = "delivery" /\ DeliveryInit
     \/ focus = "migration" /\ MigrationInit
  /\ OthersAtRest

MCNext ==
  /\ UNCHANGED focus
  /\ \/ focus = "runner" /\ Next
     \/ focus = "repository" /\ RepoNext
     \/ focus = "guard" /\ GuardMoves
     \/ focus = "validation" /\ ValidationNext
     \/ focus = "delivery" /\ DeliveryNext
     \/ focus = "migration" /\ MigrationNext
  /\ focus # "runner" => UNCHANGED vars
  /\ focus # "repository" => UNCHANGED repoVars
  /\ focus # "guard" => UNCHANGED guardVars
  /\ focus # "validation" => UNCHANGED validationVars
  /\ focus # "delivery" => UNCHANGED deliveryVars
  /\ focus # "migration" => UNCHANGED migrationVars

MCSpec ==
  MCInit /\ [][MCNext]_<<vars, repoVars, guardVars, validationVars, deliveryVars, migrationVars, focus>>

\* Every row, checkout, counter, environment, pull request and table is what its
\* module says; a part at rest is one of its initial states.
WorkTypeOK ==
  /\ focus = "runner" => TypeOK
  /\ focus = "repository" => RepoTypeOK
  /\ focus = "guard" => GuardTypeOK
  /\ focus = "validation" => ValidationTypeOK
  /\ focus = "delivery" => DeliveryTypeOK
  /\ focus = "migration" => MigrationTypeOK
=============================================================================
