------------------------- MODULE DatabaseMigration -------------------------
(***************************************************************************)
(* createDatabase (src/db.ts): every process that opens the database first *)
(* brings it up to date, whatever version left it and wherever an earlier  *)
(* opening died.  There is no version number and no transaction: each      *)
(* statement looks at what there is, and commits by itself.                *)
(*                                                                         *)
(* The dashboard and the CLI may open it at the same time.  Tables are     *)
(* named as in the code.  One column stands for those that a table gets    *)
(* one after the other, each after a look of its own.                      *)
(***************************************************************************)
EXTENDS Naturals, Sequences

CONSTANTS
  Openers,        \* processes that open the database
  OldDatabases,   \* what earlier versions left: tables, columns added later, stale rows
  MaxCrashes      \* bound on openings that die half-way

ASSUME CrashesAreBounded == MaxCrashes \in Nat

VARIABLES
  tables,     \* of the database
  columns,    \* <<table, column>> of the columns that were added after the table
  stale,      \* <<kind, row>> of data in an old form
  opener,     \* each process, see OpenerShape
  crashes

migrationVars == <<tables, columns, stale, opener, crashes>>

-----------------------------------------------------------------------------
\* The tables, by the statement that creates them.

TaskTables == {"projects", "tasks", "task_dna", "events", "work_intake_submissions", "task_reviews"}
GoalTables == {"improvement_proposals", "goal_runs", "goal_steps", "token_usage",
               "goal_checkpoints", "human_reviews"}
FeatureTables == {"features", "feature_items", "feature_plans", "feature_plan_dependencies",
                  "feature_plan_history", "feature_plan_tasks", "github_issue_links",
                  "feature_plan_operations", "feature_plan_integrations",
                  "feature_plan_integration_items"}
ServiceTables == {"completion_review_outbox", "runtime_updates"}
SkillTables == {"skills", "skill_versions", "goal_skill_pins", "skill_evaluations", "skill_usage",
                "skill_proposals", "skill_curator_incidents", "skill_curator_candidates",
                "skill_runtime_settings"}
GraphTables == {"work_graphs", "worker_nodes", "worker_attempts", "worker_artifacts"}
IntakeTables == {"work_intake_decisions"}
PolicyTables == {"provider_connections", "provider_controls", "provider_capability_routing"}
ChatTables == {"operational_chat_threads", "operational_chat_messages",
               "operational_chat_memories", "operational_chat_activity_events"}

\* A table that is created now has its columns, these excepted.
AddedAnyway == {<<"goal_runs", "wait_reason">>, <<"features", "feature_plan_id">>,
                <<"skills", "monitoring_active_until">>,
                <<"skills", "post_activation_executions">>}

\* Kinds of stale rows: Tasks without a title, plans "planned", connections of
\* unknown source, messages without a thread.
Kinds == {"untitled", "planned", "legacy", "unthreaded"}
Rows == {1, 2}

-----------------------------------------------------------------------------
\* The statements, in order.

Statement(does, on, cols) == [does |-> does, on |-> on, cols |-> cols]
Create(group) == Statement("create", group, <<>>)
\* One look at a table, and a column after another.
Add(table, cols) == Statement("add", {table}, cols)
\* The same in a `try`: what it throws is forgotten.
TryToAdd(table, cols) == Statement("try", {table}, cols)
\* Only for a table that was there before this opening.
AddToOld(table, cols) == Statement("addToOld", {table}, cols)
Index(table, column) == Statement("index", {table}, <<column>>)
\* Row after row, or all rows at once.
FillEach(kind) == Statement("fillEach", {kind}, <<>>)
FillAll(kind) == Statement("fillAll", {kind}, <<>>)
DeleteFromOld(kind) == Statement("deleteFromOld", {kind}, <<>>)

Core == <<Create(TaskTables), Create(GoalTables), Create(FeatureTables), Create(ServiceTables)>>

Intake == <<Add("tasks", <<"title", "specification">>), FillEach("untitled")>>

Skills == <<Create(SkillTables),
            Add("skills", <<"monitoring_active_until", "post_activation_executions">>)>>

Later == <<Add("tasks", <<"project_id">>), Add("projects", <<"sync_state">>),
           Add("goal_runs", <<"wait_reason">>), Add("feature_plans", <<"revision">>),
           FillAll("planned"), Add("feature_plan_tasks", <<"contract_json">>),
           Add("features", <<"feature_plan_id">>),
           Add("improvement_proposals", <<"fingerprint">>),
           Add("goal_checkpoints", <<"objective">>)>>

Indexes == <<Index("features", "feature_plan_id"), Index("improvement_proposals", "fingerprint")>>

PolicyColumns == <<Create(PolicyTables), AddToOld("provider_connections", <<"connection_source">>),
                   DeleteFromOld("legacy"),
                   TryToAdd("provider_controls", <<"model", "effort">>),
                   TryToAdd("provider_capability_routing", <<"preferred_model", "preferred_effort">>)>>

Threads == <<Create(ChatTables),
             Add("operational_chat_threads", <<"access_mode", "provider_id">>),
             Add("operational_chat_messages", <<"thread_id", "provider_id">>),
             FillEach("unthreaded"), Index("operational_chat_messages", "thread_id")>>

MigrateIndexFirst ==
  Core \o Intake \o Skills \o <<Create(GraphTables), Create(IntakeTables)>> \o Indexes \o Later
MigrateStatements ==
  Core \o Intake \o Skills \o <<Create(GraphTables), Create(IntakeTables)>> \o Later \o Indexes

Statements == MigrateStatements \o PolicyColumns \o <<Create(IntakeTables)>> \o Threads

AllTables == UNION {Statements[i].on : i \in {j \in DOMAIN Statements : Statements[j].does = "create"}}

Adding == {"add", "try", "addToOld"}
AllColumns ==
  UNION {{<<t, Statements[i].cols[k]>> : t \in Statements[i].on, k \in DOMAIN Statements[i].cols} :
           i \in {j \in DOMAIN Statements : Statements[j].does \in Adding}}
Forgiven ==
  UNION {{<<t, Statements[i].cols[k]>> : t \in Statements[i].on, k \in DOMAIN Statements[i].cols} :
           i \in {j \in DOMAIN Statements : Statements[j].does = "try"}}

\* What earlier versions left has tables and columns of today's and old rows only
\* where the table of the rows is there.
HomeOf == [untitled |-> "tasks", planned |-> "feature_plans", legacy |-> "provider_connections",
           unthreaded |-> "operational_chat_messages"]

ASSUME OldDatabasesAreOurs ==
  \A old \in OldDatabases :
    /\ old.tables \subseteq AllTables
    /\ old.columns \subseteq {c \in AllColumns : c[1] \in old.tables}
    /\ old.stale \subseteq {s \in Kinds \X Rows : HomeOf[s[1]] \in old.tables}

-----------------------------------------------------------------------------
\* at: "adding" between the look at a table and the columns it lacks, of which
\* `lacks` has the positions.  had: provider_connections was there.  contested:
\* another process migrated at the same time (history).
OpenerShape ==
  [at : {"closed", "migrating", "adding", "open", "failed"}, pc : 1 .. Len(Statements) + 1,
   lacks : SUBSET Nat, had : BOOLEAN, contested : BOOLEAN]

Closed == [at |-> "closed", pc |-> 1, lacks |-> {}, had |-> FALSE, contested |-> FALSE]
Migrating(o) == opener[o].at \in {"migrating", "adding"}

Now(o) == Statements[opener[o].pc]
NowAt(o, does) == opener[o].at = "migrating" /\ opener[o].pc <= Len(Statements) /\ Now(o).does = does
Table(o) == CHOOSE t \in Now(o).on : TRUE
Becomes(o, x) == opener' = [opener EXCEPT ![o] = x]
Following(o) == [opener[o] EXCEPT !.at = "migrating", !.pc = @ + 1, !.lacks = {}]

Opens(o) ==
  /\ opener[o].at \in {"closed", "failed"}
  /\ opener' = [p \in Openers |->
       IF p = o THEN [Closed EXCEPT !.at = "migrating",
                                    !.contested = \E q \in Openers \ {o} : Migrating(q)]
       ELSE IF Migrating(p) THEN [opener[p] EXCEPT !.contested = TRUE] ELSE opener[p]]
  /\ UNCHANGED <<tables, columns, stale, crashes>>

\* CREATE TABLE IF NOT EXISTS, after a look at what there was.
Creates(o) ==
  LET group == Now(o).on IN
  /\ NowAt(o, "create")
  /\ tables' = tables \cup group
  /\ columns' = columns \cup {c \in AllColumns : c[1] \in group \ tables /\ c \notin AddedAnyway}
  /\ Becomes(o, [Following(o) EXCEPT !.had = @ \/ "provider_connections" \in group \cap tables])
  /\ UNCHANGED <<stale, crashes>>

\* addColumnIfMissing: PRAGMA table_info
Lacking(table, cols) == {k \in DOMAIN cols : <<table, cols[k]>> \notin columns}

LooksUp(o) ==
  LET lacks == Lacking(Table(o), Now(o).cols) IN
  /\ NowAt(o, "add") \/ NowAt(o, "try") \/ NowAt(o, "addToOld")
  /\ Becomes(o, IF lacks = {} \/ (Now(o).does = "addToOld" /\ ~opener[o].had) THEN Following(o)
                ELSE [opener[o] EXCEPT !.at = "adding", !.lacks = lacks])
  /\ UNCHANGED <<tables, columns, stale, crashes>>

NextLack(o) == CHOOSE k \in opener[o].lacks : \A j \in opener[o].lacks : k <= j

\* ALTER TABLE throws if the column came meanwhile.
Alters(o) ==
  LET column == <<Table(o), Now(o).cols[NextLack(o)]>>
      left == opener[o].lacks \ {NextLack(o)}
      x == IF left = {} THEN Following(o) ELSE [opener[o] EXCEPT !.lacks = left]
  IN
  /\ opener[o].at = "adding"
  /\ columns' = columns \cup {column}
  /\ \/ column \notin columns /\ Becomes(o, x)
     \/ column \in columns /\ Now(o).does = "try" /\ Becomes(o, Following(o))
     \/ column \in columns /\ Now(o).does # "try" /\ Becomes(o, [opener[o] EXCEPT !.at = "failed"])
  /\ UNCHANGED <<tables, stale, crashes>>

Fills(o) ==
  LET rows == {s \in stale : s[1] \in Now(o).on} IN
  /\ NowAt(o, "fillEach") \/ NowAt(o, "fillAll") \/ NowAt(o, "deleteFromOld")
  /\ \/ /\ Now(o).does = "fillEach" /\ rows # {}
        /\ \E row \in rows : stale' = stale \ {row}
        /\ UNCHANGED opener
     \/ /\ Now(o).does = "fillEach" => rows = {}
        /\ stale' = IF Now(o).does = "deleteFromOld" /\ ~opener[o].had THEN stale ELSE stale \ rows
        /\ Becomes(o, Following(o))
  /\ UNCHANGED <<tables, columns, crashes>>

Indexed(o) ==
  /\ NowAt(o, "index")
  /\ Becomes(o, IF <<Table(o), Now(o).cols[1]>> \in columns THEN Following(o)
                ELSE [opener[o] EXCEPT !.at = "failed"])
  /\ UNCHANGED <<tables, columns, stale, crashes>>

\* The persistences are created, and the program goes on.
Opened(o) ==
  /\ opener[o].at = "migrating" /\ opener[o].pc > Len(Statements)
  /\ Becomes(o, [opener[o] EXCEPT !.at = "open"])
  /\ UNCHANGED <<tables, columns, stale, crashes>>

OpenerDies(o) ==
  /\ crashes < MaxCrashes /\ Migrating(o)
  /\ crashes' = crashes + 1
  /\ Becomes(o, Closed)
  /\ UNCHANGED <<tables, columns, stale>>

MigrationStarts(old) ==
  /\ tables = old.tables /\ columns = old.columns /\ stale = old.stale
  /\ opener = [o \in Openers |-> Closed] /\ crashes = 0

MigrationInit == \E old \in OldDatabases : MigrationStarts(old)

MigrationNext ==
  \E o \in Openers :
    \/ Opens(o) \/ Creates(o) \/ LooksUp(o) \/ Alters(o) \/ Fills(o) \/ Indexed(o)
    \/ Opened(o) \/ OpenerDies(o)

MigrationSpec == MigrationInit /\ [][MigrationNext]_migrationVars

-----------------------------------------------------------------------------
MigrationTypeOK ==
  /\ tables \subseteq AllTables
  /\ columns \subseteq {c \in AllColumns : c[1] \in tables}
  /\ stale \subseteq Kinds \X Rows
  /\ opener \in [Openers -> OpenerShape] /\ crashes \in 0 .. MaxCrashes

\* A process that opened the database finds every table, every column and no row in
\* an old form, whatever version left it and however often earlier openings died
\* between two statements.  Another process that migrates at the same time may make
\* it fail, nothing else does; and it may hide only that a column of the provider
\* controls or of the routing is not there yet (createDatabase).
OpenedIsWhole ==
  \A o \in Openers :
    /\ opener[o].at = "open" =>
         /\ tables = AllTables /\ stale = {}
         /\ columns # AllColumns => opener[o].contested /\ AllColumns \ columns \subseteq Forgiven
    /\ opener[o].at = "failed" => opener[o].contested
=============================================================================
