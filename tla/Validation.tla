----------------------------- MODULE Validation -----------------------------
(***************************************************************************)
(* src/validation/runner.ts, projects/discovery.ts, security/secrets.ts:   *)
(* the deterministic checks of a Task's worktree, and the preparation of   *)
(* its Python and Node environments before them.                           *)
(*                                                                         *)
(* Providers work in the worktree between two validations, not during one: *)
(* the phases of a Goal follow each other.  The contents of the manifests  *)
(* are a revision.  Every process run is awaited, and the Goal may be      *)
(* aborted meanwhile; what is between two of them is synchronous.          *)
(***************************************************************************)
EXTENDS Naturals, Sequences, FiniteSets

CONSTANTS
  Projects,          \* what worktrees hold: see ProjectShape
  MaxWorkEdits       \* bound on what providers do between validations, and on crashes

VARIABLES
  project,           \* the worktree's project
  revision,          \* of its manifests
  clean,             \* its changes have no whitespace error and no secret
  excluded,          \* environments are in info/exclude
  venv, modules,     \* by directory: the environments of Python and Node
  validation,        \* the validation at work
  report,            \* the last one's
  workEdits

validationVars == <<project, revision, clean, excluded, venv, modules, validation, report, workEdits>>
tree == <<project, revision, clean>>

Dirs == {"root", "back", "front", "pkg"}
Revisions == {1, 2}

\* python, node: directories with such a manifest.  loose: Python sources.
\* unsupported: Pipfile or environment.yml.  pyTests, tests: test files.
\* tsconfig, vite: such a configuration.  declares: dependencies.  members: of the
\* root's workspaces.  lock: the lockfile.  changed: directories with changes.
\* unignores: its own rules keep the environments visible.  approved: the Task's
\* preparation was approved.  npm: npm is found on the host.
ProjectShape ==
  [python : SUBSET Dirs, node : SUBSET Dirs, loose : BOOLEAN, unsupported : SUBSET Dirs,
   pyTests : SUBSET Dirs, tests : BOOLEAN, tsconfig : SUBSET Dirs, vite : SUBSET Dirs,
   scripts : SUBSET {"typecheck", "lint", "test", "build"}, declares : SUBSET Dirs,
   members : SUBSET Dirs, lock : {"npm", "pnpm", "yarn", "bun", "none"},
   changed : SUBSET Dirs, unignores : BOOLEAN, approved : BOOLEAN, npm : BOOLEAN]

ASSUME ValidationBounds == Projects \subseteq ProjectShape /\ MaxWorkEdits \in Nat

\* made: it exists.  marker: the revision noted as installed, 0 for none.
\* ever: the revisions installed in it without a failure (history).
NoEnvironment == [made |-> FALSE, marker |-> 0, ever |-> {}]

\* plan, ran: checks planned, and those that ended.  jobs: environments to prepare.
Resting == [at |-> "idle", jobs |-> <<>>, ok |-> TRUE, fresh |-> FALSE, failed |-> FALSE,
            aborted |-> FALSE, plan |-> <<>>, ran |-> 0, prepared |-> {}]
NoReport == [passed |-> FALSE, whole |-> FALSE, trusted |-> TRUE]

Awaiting == {"diff", "venv", "pip", "pytest", "install", "verify", "check"}

-----------------------------------------------------------------------------
\* discoverProject, and which checks it gets.

Node == project.node
\* What listGitVisibleFiles or the walk finds; other ecosystems are listed only.
PythonFound == project.python # {} \/ project.loose

\* findAppDir
AppDirs == {d \in {"back", "front"} : d \in Node \cup project.tsconfig \cup project.vite}
RootTypeScript == "root" \in Node \cup project.tsconfig \cup project.vite

Layout ==
  IF AppDirs # {} THEN "nested-app"
  ELSE IF ~RootTypeScript /\ "root" \notin project.python /\ Cardinality(Node) = 1 THEN "standalone-node"
  ELSE IF PythonFound /\ ~RootTypeScript THEN "python"
  ELSE "root"

\* The root, a sole other project, or those of several others that changed.
PythonDirs ==
  LET found == project.python \cup (IF project.python = {} /\ project.loose THEN {"root"} ELSE {})
      others == found \ {"root"}
  IN (found \cap {"root"}) \cup (IF Cardinality(others) = 1 THEN others ELSE others \cap project.changed)

Check(id, d, skipped) == [id |-> id, dir |-> d, skipped |-> skipped]

\* Those of four that are in a set, in their order.
Picked(four, set) ==
  LET Pick(i) == IF four[i] \in set THEN <<four[i]>> ELSE <<>>
  IN Pick(1) \o Pick(2) \o Pick(3) \o Pick(4)

InOrder(dirs) == Picked(<<"root", "back", "front", "pkg">>, dirs)

\* pythonProjectCommandSpecs: compiled, and tested if it has tests.
PythonChecks(dirs) ==
  LET order == InOrder(dirs) IN
  [i \in 1 .. 2 * Len(order) |->
     LET d == order[(i + 1) \div 2] IN
     IF i % 2 = 1 THEN Check("python_compile", d, FALSE)
     ELSE Check("tests_python", d, d \notin project.pyTests)]

NestedChecks ==
  <<Check("typecheck_backend", "back", project.tsconfig \cap {"back", "root"} = {}),
    Check("typecheck_ui", "front", "front" \notin project.tsconfig),
    Check("tests_full", "root", ~project.tests),
    Check("build_ui", "front", project.vite \cap {"front", "root"} = {})>> \o PythonChecks(PythonDirs)

\* The scripts it declares; all skipped if no package manager is found.
StandaloneChecks ==
  LET d == CHOOSE n \in Node : TRUE
      found == project.lock \notin {"npm", "none"} \/ project.npm
      order == Picked(<<"typecheck", "lint", "test", "build">>, project.scripts)
  IN (IF order = <<>> THEN <<Check("project_tests", d, TRUE)>>
      ELSE [i \in 1 .. Len(order) |-> Check(order[i], d, ~found)]) \o PythonChecks(PythonDirs)

\* The catalog of Maestro itself, whatever the root has.
RootChecks ==
  <<Check("typecheck_backend", "root", FALSE), Check("typecheck_ui", "root", FALSE),
    Check("tests_full", "root", FALSE), Check("build_ui", "root", FALSE)>>

Plan == CASE Layout = "nested-app" -> NestedChecks
          [] Layout = "python" -> PythonChecks(IF PythonDirs = {} THEN {"root"} ELSE PythonDirs)
          [] Layout = "standalone-node" -> StandaloneChecks
          [] Layout = "root" -> RootChecks

-----------------------------------------------------------------------------
\* What is prepared.

\* nodeAppDirs, less the members that their root installs.
NodeDirs ==
  LET candidates == (Node \cap {"root"}) \cup (AppDirs \cap Node)
                    \cup (IF Cardinality(Node) = 1 THEN Node ELSE {})
  IN candidates \ (project.members \ {"root"})

RootWorkspace(d) == d = "root" /\ project.members # {}

\* detectNodePackageManager, and what serves without a lockfile.
Manager == IF project.lock \in {"npm", "none"} THEN (IF project.npm THEN "npm" ELSE "none") ELSE project.lock

\* A root that declares nothing is installed if one of its members is.
Artifacts(env, d) ==
  \/ env[d].made
  \/ RootWorkspace(d) /\ d \notin project.declares /\ \E m \in project.members : env[m].made

Jobs == LET py == InOrder(PythonDirs)  node == InOrder(NodeDirs) IN
  [i \in 1 .. Len(py) |-> <<"python", py[i]>>] \o [i \in 1 .. Len(node) |-> <<"node", node[i]>>]

-----------------------------------------------------------------------------
Goes(at) == validation' = [validation EXCEPT !.at = at]
Underway(at) == validation.at = at
Job == Head(validation.jobs)
JobDir == Job[2]

\* The environment is done with, for better or worse.
NextJob(failed) ==
  validation' = [validation EXCEPT !.at = "job", !.jobs = Tail(@), !.ok = TRUE, !.fresh = FALSE,
                 !.failed = @ \/ failed]

\* A process that ended; an abort kills it, and its exit code counts no more.
Passes(exitsWell) == exitsWell /\ ~validation.aborted

ValidationStarts ==
  /\ Underway("idle")
  /\ validation' = [Resting EXCEPT !.at = "diff"]
  /\ report' = NoReport
  /\ UNCHANGED <<tree, excluded, venv, modules, workEdits>>

ValidationAborts ==
  /\ validation.at \in Awaiting /\ ~validation.aborted
  /\ Underway("check") => ~validation.plan[validation.ran + 1].skipped
  /\ validation' = [validation EXCEPT !.aborted = TRUE]
  /\ UNCHANGED <<tree, excluded, venv, modules, report, workEdits>>

\* scanWorktreePathsForSecrets, over what listChangedFiles lists.
SecretScan == clean

\* excludeLocalEnvironments: written, and effective.
Excludes(written) == (excluded \/ written) /\ ~project.unignores

\* The two cheap gates; then the environment, or the checks.
GatesRun ==
  \E exits, written \in BOOLEAN :
    /\ Underway("diff") /\ (exits => clean)
    /\ IF ~Passes(exits) \/ ~SecretScan
       THEN /\ validation' = [validation EXCEPT !.at = "reporting", !.failed = TRUE]
            /\ UNCHANGED excluded
       ELSE IF ~project.approved
       THEN Goes("planning") /\ UNCHANGED excluded
       ELSE /\ excluded' = (excluded \/ written)
            /\ validation' = IF Excludes(written)
                 THEN [validation EXCEPT !.at = "job", !.jobs = Jobs]
                 ELSE [validation EXCEPT !.at = "planning", !.failed = TRUE]
    /\ UNCHANGED <<tree, venv, modules, report, workEdits>>

\* prepareEnvironment goes through the directories until it is aborted.
JobsEnd ==
  /\ Underway("job") /\ (validation.jobs = <<>> \/ validation.aborted)
  /\ Goes("planning")
  /\ UNCHANGED <<tree, excluded, venv, modules, report, workEdits>>

Installs(next) == validation' = [validation EXCEPT !.at = next, !.fresh = Underway("venv")]

\* Its manifest, if it has one, and pytest, if it has tests.
PythonInstall(d) ==
  IF d \in project.python THEN Installs("pip")
  ELSE IF d \in project.pyTests THEN Installs("pytest")
  ELSE NextJob(FALSE)

\* preparePython, up to its first process.
StartsPython ==
  /\ Underway("job") /\ validation.jobs # <<>> /\ ~validation.aborted /\ Job[1] = "python"
  /\ IF JobDir \in project.unsupported THEN NextJob(TRUE)
     ELSE IF ~venv[JobDir].made THEN Goes("venv")
     ELSE IF venv[JobDir].marker = revision THEN NextJob(FALSE)
     ELSE PythonInstall(JobDir)
  /\ UNCHANGED <<tree, excluded, venv, modules, report, workEdits>>

\* The first interpreter that runs makes it; half of it may be left.
VenvEnds ==
  \E exits, left \in BOOLEAN :
    /\ Underway("venv")
    /\ IF Passes(exits)
       THEN /\ venv' = [venv EXCEPT ![JobDir] = [NoEnvironment EXCEPT !.made = TRUE]]
            /\ PythonInstall(JobDir)
       ELSE /\ venv' = [venv EXCEPT ![JobDir] = [NoEnvironment EXCEPT !.made = left]]
            /\ NextJob(TRUE)
    /\ UNCHANGED <<tree, excluded, modules, report, workEdits>>

MarksAnyway(ok) == TRUE
\* The marker is written only if every installation succeeded.
Marks(ok) == ok

InstalledAll(env, d, ok) ==
  [env EXCEPT ![d].marker = IF Marks(ok) THEN revision ELSE @,
              ![d].ever = IF ok THEN @ \cup {revision} ELSE @]

PipEnds ==
  \E exits \in BOOLEAN :
    /\ Underway("pip")
    /\ IF JobDir \in project.pyTests
       THEN /\ validation' = [validation EXCEPT !.at = "pytest", !.ok = Passes(exits),
                              !.failed = @ \/ ~Passes(exits)]
            /\ UNCHANGED venv
       ELSE /\ venv' = InstalledAll(venv, JobDir, Passes(exits))
            /\ NextJob(~Passes(exits))
    /\ UNCHANGED <<tree, excluded, modules, report, workEdits>>

PytestEnds ==
  \E exits \in BOOLEAN :
    /\ Underway("pytest")
    /\ venv' = InstalledAll(venv, JobDir, validation.ok /\ Passes(exits))
    /\ NextJob(~Passes(exits))
    /\ UNCHANGED <<tree, excluded, modules, report, workEdits>>

\* prepareNode, up to its process.
StartsNode ==
  LET d == JobDir IN
  /\ Underway("job") /\ validation.jobs # <<>> /\ ~validation.aborted /\ Job[1] = "node"
  /\ IF d \notin project.declares /\ ~RootWorkspace(d) THEN NextJob(FALSE)
     ELSE IF Artifacts(modules, d) /\ modules[d].marker = revision THEN NextJob(FALSE)
     ELSE IF Manager = "none" THEN NextJob(TRUE)
     ELSE Goes("install")
  /\ UNCHANGED <<tree, excluded, venv, modules, report, workEdits>>

\* Whatever it left must be an installation before it is marked as one.
NodeSettles(env, d, ok) ==
  IF ok /\ Artifacts(env, d)
  THEN modules' = InstalledAll(env, d, TRUE) /\ NextJob(FALSE)
  ELSE modules' = InstalledAll(env, d, FALSE) /\ NextJob(TRUE)

InstalledBy(d) == {d} \cup (IF RootWorkspace(d) THEN project.members ELSE {})

InstallEnds ==
  /\ Underway("install")
  /\ \E exits \in BOOLEAN, left \in SUBSET InstalledBy(JobDir) :
       LET env == [d \in Dirs |-> IF d \in InstalledBy(JobDir)
                                  THEN [modules[d] EXCEPT !.made = d \in left] ELSE modules[d]]
       IN IF Manager = "npm" /\ Passes(exits)
          THEN modules' = env /\ Goes("verify")
          ELSE NodeSettles(env, JobDir, Passes(exits))
  /\ UNCHANGED <<tree, excluded, venv, report, workEdits>>

\* npm ls may complain; what counts is that nothing required is missing.
VerifyEnds ==
  \E complete \in BOOLEAN :
    /\ Underway("verify")
    /\ NodeSettles(modules, JobDir, Passes(complete))
    /\ UNCHANGED <<tree, excluded, venv, report, workEdits>>

-----------------------------------------------------------------------------
\* The commands are built after the environment, for the interpreter it has.
Plans ==
  /\ Underway("planning")
  /\ validation' = [validation EXCEPT !.at = "check", !.plan = Plan,
                    !.prepared = IF project.approved THEN {Jobs[i] : i \in DOMAIN Jobs} ELSE {}]
  /\ UNCHANGED <<tree, excluded, venv, modules, report, workEdits>>

\* runCommandCheck; what is skipped runs no process.
CheckEnds ==
  \E exits \in BOOLEAN :
    LET check == validation.plan[validation.ran + 1]
        passed == check.skipped \/ Passes(exits)
    IN
    /\ Underway("check") /\ validation.ran < Len(validation.plan)
    /\ validation' = [validation EXCEPT !.ran = @ + 1, !.failed = @ \/ ~passed,
         !.at = IF validation.aborted \/ validation.ran + 1 = Len(validation.plan)
                THEN "reporting" ELSE "check"]
    /\ UNCHANGED <<tree, excluded, venv, modules, report, workEdits>>

\* An environment is trusted if these manifests were once installed in it.
Trusted(job) ==
  LET d == job[2] IN
  IF job[1] = "python"
  THEN d \in project.python => revision \in venv[d].ever
  ELSE d \in project.declares => revision \in modules[d].ever

\* whole, trusted: history, for PassedReportIsWhole.
Reports ==
  /\ Underway("reporting")
  /\ report' = [passed |-> ~validation.failed,
                whole |-> clean /\ validation.plan # <<>> /\ validation.ran = Len(validation.plan)
                          /\ ~validation.aborted,
                trusted |-> \A job \in validation.prepared : Trusted(job)]
  /\ validation' = Resting
  /\ UNCHANGED <<tree, excluded, venv, modules, workEdits>>

-----------------------------------------------------------------------------
\* Providers, between validations, and crashes.

WorkEdit == workEdits < MaxWorkEdits /\ workEdits' = workEdits + 1

EditsManifests ==
  /\ WorkEdit /\ Underway("idle") /\ revision' \in Revisions \ {revision}
  /\ report' = NoReport
  /\ UNCHANGED <<project, clean, excluded, venv, modules, validation>>

EditsFiles ==
  /\ WorkEdit /\ Underway("idle") /\ clean' = ~clean
  /\ report' = NoReport
  /\ UNCHANGED <<project, revision, excluded, venv, modules, validation>>

RemovesEnvironments ==
  /\ WorkEdit /\ Underway("idle")
  /\ venv' = [d \in Dirs |-> NoEnvironment]
  /\ modules' = [d \in Dirs |-> [modules[d] EXCEPT !.made = FALSE]]
  /\ report' = NoReport
  /\ UNCHANGED <<tree, excluded, validation>>

\* The process dies, and with it the installation at work.
ValidationLost ==
  /\ WorkEdit /\ ~Underway("idle")
  /\ validation' = Resting
  /\ UNCHANGED <<tree, excluded, venv, modules, report>>

ValidationStartsWith(p) ==
  /\ project = p /\ revision = 1 /\ clean = TRUE /\ excluded = FALSE
  /\ venv = [d \in Dirs |-> NoEnvironment] /\ modules = [d \in Dirs |-> NoEnvironment]
  /\ validation = Resting /\ report = NoReport /\ workEdits = 0

ValidationInit == \E p \in Projects : ValidationStartsWith(p)

ValidationNext ==
  \/ ValidationStarts \/ ValidationAborts \/ GatesRun
  \/ JobsEnd \/ StartsPython \/ VenvEnds \/ PipEnds \/ PytestEnds
  \/ StartsNode \/ InstallEnds \/ VerifyEnds
  \/ Plans \/ CheckEnds \/ Reports
  \/ EditsManifests \/ EditsFiles \/ RemovesEnvironments \/ ValidationLost

ValidationSpec == ValidationInit /\ [][ValidationNext]_validationVars

-----------------------------------------------------------------------------
Environment == [made : BOOLEAN, marker : {0} \cup Revisions, ever : SUBSET Revisions]

EnvironmentJob == {"python", "node"} \X Dirs
CheckId == {"python_compile", "tests_python", "typecheck_backend", "typecheck_ui", "tests_full",
            "build_ui", "typecheck", "lint", "test", "build", "project_tests"}
PlannedCheck == [id : CheckId, dir : Dirs, skipped : BOOLEAN]

ValidationState ==
  [at : Awaiting \cup {"idle", "job", "planning", "reporting"}, jobs : Seq(EnvironmentJob),
   ok : BOOLEAN, fresh : BOOLEAN, failed : BOOLEAN, aborted : BOOLEAN,
   plan : Seq(PlannedCheck), ran : Nat, prepared : SUBSET EnvironmentJob]

ValidationTypeOK ==
  /\ project \in Projects
  /\ revision \in Revisions /\ clean \in BOOLEAN /\ excluded \in BOOLEAN
  /\ venv \in [Dirs -> Environment] /\ modules \in [Dirs -> Environment]
  /\ validation \in ValidationState /\ validation.ran <= Len(validation.plan)
  /\ report \in [passed : BOOLEAN, whole : BOOLEAN, trusted : BOOLEAN]
  /\ workEdits \in 0 .. MaxWorkEdits

\* A validation that passed passed both gates and ran its whole plan to the end,
\* though it may be aborted at any process; and where the preparation was approved,
\* every environment it used had these very manifests installed in it, though
\* providers edit them and remove environments, installations fail, are aborted or
\* die, and the markers that spare an installation outlive them all
\* (DeterministicValidationRunner.run, prepareEnvironment).
PassedReportIsWhole == report.passed => report.whole /\ report.trusted
=============================================================================
