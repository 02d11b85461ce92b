------------------------- MODULE ProjectRepository -------------------------
(***************************************************************************)
(* src/projects/repository-service.ts, src/git.ts and prepareTask: how the *)
(* worktree of a Task gets the commit it starts from.                      *)
(*                                                                         *)
(* Git is called synchronously, so a process does one thing at a time; but *)
(* the dashboard's process, the CLI's, people in the canonical checkout    *)
(* and the remote act between two of its calls.  Reads that follow one     *)
(* another without a slow command in between are one step.                 *)
(*                                                                         *)
(* A commit is a number, a head the set of the commits it reaches: an      *)
(* ancestor is a subset.  One project, one Task and the Task it depends on. *)
(***************************************************************************)
EXTENDS Naturals

CONSTANTS
  Maestros,          \* processes that use the repository
  Nobody,
  Commits,           \* bound: 1 .. n, in the order they are made
  MaxRepoEvents      \* bound on what people, the remote and crashes do

ASSUME RepoBounds ==
  /\ Nobody \notin Maestros /\ MaxRepoEvents \in Nat
  /\ Commits \subseteq Nat \ {0} /\ {1, 2} \subseteq Commits

VARIABLES
  place,      \* of the checkout: there, moved away, or no repository
  branch,     \* the branch it is on
  heads,      \* its default branch, and another one of the user
  dirty,      \* it has uncommitted files
  origin,     \* it has a remote; `remote` is its default branch, {} without one
  remote,
  tracking,   \* refs/remotes/origin/<default>
  baseline,   \* branch of the Task's baseline: on the remote, its tracking ref,
              \* here, and the directory it is built in
  lock,       \* the lock directory: held, by whom, older than ten minutes
  maestro,    \* what each process is doing
  work,       \* the Task: its worktree, its row, and what its base had to reach
  deliveries, \* commits the Task it depends on delivered, none if there is no such Task
  made,       \* commits made
  died,       \* a process died with the lock (history)
  crossed,    \* a preparation was crossed: see Crossed (history)
  repoEvents

repoVars == <<place, branch, heads, dirty, origin, remote, tracking, baseline, lock,
              maestro, work, deliveries, made, died, crossed, repoEvents>>
checkout == <<place, branch, heads, dirty, origin, remote, made>>
world == <<checkout, deliveries, died, crossed, repoEvents>>

Branches == {"default", "other"}
Purposes == {"task", "sync", "inspect"}

\* head, clean, fetched: what the process has seen.  base: what it goes on with.
Uninvolved == [at |-> "idle", for |-> "inspect", head |-> {}, on |-> "default", clean |-> TRUE,
           fetched |-> {}, base |-> {}, owed |-> {}, delivery |-> 0]

Unlocked == [held |-> FALSE, by |-> Nobody, old |-> FALSE]
Critical == {"locked", "looked", "fetched", "merging", "merged"}

Latest(commits) == CHOOSE c \in commits : \A d \in commits : d <= c

\* It is about to add a worktree on the baseline, which it knows by its name only.
ByName(p) == maestro[p].at = "adding" /\ maestro[p].base = {}

\* People switch branches while somebody synchronizes, or a baseline is deleted that
\* somebody is about to use.
Crossed(preparations) == crossed' = (crossed \/ preparations # {})

OnlyMaestro(p, x) == maestro' = [maestro EXCEPT ![p] = x]
Stands(p, at) == maestro[p].at = at

\* release looks whose lock it is.
Released(p) == IF lock.held /\ lock.by = p THEN Unlocked ELSE lock

\* An inspection is over, a synchronization refused, a preparation fails.
Refused(p) == OnlyMaestro(p, Uninvolved) /\ lock' = Released(p)

\* The preparation goes on with the exact commit, the others are over.
Accepted(p, head) ==
  LET x == maestro[p] IN
  /\ lock' = Released(p)
  /\ OnlyMaestro(p, IF x.for # "task" THEN Uninvolved
       ELSE [x EXCEPT !.at = "basing", !.base = head,
                      !.owed = IF x.clean THEN x.fetched ELSE {}])

-----------------------------------------------------------------------------
\* prepareTask, up to the repository

\* A worktree that exists is used again; one that is gone fails.
PrepareStarts(p) ==
  /\ Stands(p, "idle")
  /\ \/ /\ work.row
        /\ OnlyMaestro(p, Uninvolved)
     \/ /\ ~work.row /\ place = "there"
        /\ OnlyMaestro(p, [Uninvolved EXCEPT !.for = "task",
                           !.at = IF heads[branch] = {} THEN "empty" ELSE "locking"])
  /\ UNCHANGED <<world, tracking, baseline, lock, work>>

\* bootstrapEmptyRepository: the first commit, and its publication if it
\* succeeds; or files left behind that the next attempt refuses.
Bootstraps(p) ==
  /\ Stands(p, "empty")
  /\ \/ /\ heads[branch] # {} /\ OnlyMaestro(p, [maestro[p] EXCEPT !.at = "locking"])
        /\ UNCHANGED <<heads, remote, tracking, made, dirty>>
     \/ /\ heads[branch] = {} /\ (dirty \/ place # "there")
        /\ OnlyMaestro(p, Uninvolved)
        /\ UNCHANGED <<heads, remote, tracking, made, dirty>>
     \/ /\ heads[branch] = {} /\ ~dirty /\ place = "there"
        /\ dirty' = TRUE /\ OnlyMaestro(p, Uninvolved)
        /\ UNCHANGED <<heads, remote, tracking, made>>
     \/ /\ heads[branch] = {} /\ ~dirty /\ place = "there" /\ made + 1 \in Commits
        /\ made' = made + 1
        /\ heads' = [heads EXCEPT ![branch] = {made'}]
        /\ \/ UNCHANGED <<remote, tracking>>
           \/ /\ origin /\ remote = {} /\ branch = "default"
              /\ remote' = {made'} /\ tracking' = {made'}
        /\ OnlyMaestro(p, [maestro[p] EXCEPT !.at = "locking"])
        /\ UNCHANGED dirty
  /\ UNCHANGED <<place, branch, origin, baseline, lock, work, deliveries, died, crossed, repoEvents>>

\* A synchronization after a merge, or a look of the dashboard, the chat or the CLI.
SyncStarts(p) ==
  /\ Stands(p, "idle")
  /\ \E purpose \in {"sync", "inspect"} :
       OnlyMaestro(p, [Uninvolved EXCEPT !.for = purpose, !.at = "locking"])
  /\ UNCHANGED <<world, tracking, baseline, lock, work>>

-----------------------------------------------------------------------------
\* acquireSyncLock

Acquires(p) ==
  /\ Stands(p, "locking") /\ ~lock.held
  /\ lock' = [held |-> TRUE, by |-> p, old |-> FALSE]
  /\ OnlyMaestro(p, [maestro[p] EXCEPT !.at = "locked"])
  /\ UNCHANGED <<world, tracking, baseline, work>>

\* Old, and its owner is dead or never signed.
Orphaned == lock.held /\ lock.old /\ lock.by = Nobody

LockRefused(p) ==
  /\ Stands(p, "locking") /\ lock.held /\ ~Orphaned
  /\ OnlyMaestro(p, Uninvolved)
  /\ UNCHANGED <<world, tracking, baseline, lock, work>>

\* What was judged orphaned is removed a moment later, whoever holds it then.
JudgesOrphan(p) ==
  /\ Stands(p, "locking") /\ Orphaned
  /\ OnlyMaestro(p, [maestro[p] EXCEPT !.at = "reclaiming"])
  /\ UNCHANGED <<world, tracking, baseline, lock, work>>

Reclaims(p) ==
  /\ Stands(p, "reclaiming")
  /\ lock' = [held |-> TRUE, by |-> p, old |-> FALSE]
  /\ OnlyMaestro(p, [maestro[p] EXCEPT !.at = "locked"])
  /\ UNCHANGED <<world, tracking, baseline, work>>

LockAges ==
  /\ lock.held /\ ~lock.old
  /\ lock' = [lock EXCEPT !.old = TRUE]
  /\ UNCHANGED <<world, tracking, baseline, maestro, work>>

-----------------------------------------------------------------------------
\* inspectUnlocked and synchronizeUnlocked

\* The checkout as it is now.
Looking(x) == [x EXCEPT !.at = "looked", !.head = heads[branch], !.on = branch, !.clean = ~dirty]

Looks(p) ==
  /\ Stands(p, "locked")
  /\ IF place # "there" \/ heads[branch] = {} \/ (~origin /\ dirty /\ maestro[p].for # "task")
     THEN Refused(p)
     ELSE IF ~origin
          THEN /\ lock' = Released(p)
               /\ OnlyMaestro(p, IF maestro[p].for # "task" THEN Uninvolved
                    ELSE [Looking(maestro[p]) EXCEPT !.at = "basing", !.base = heads[branch]])
          ELSE OnlyMaestro(p, Looking(maestro[p])) /\ UNCHANGED lock
  /\ UNCHANGED <<world, tracking, baseline, work>>

\* The fetch prunes: a remote without the branch leaves no tracking ref.
Fetches(p) ==
  /\ Stands(p, "looked")
  /\ \/ /\ OnlyMaestro(p, [maestro[p] EXCEPT !.at = "fetched", !.fetched = remote])
        /\ tracking' = remote
        /\ UNCHANGED lock
     \/ /\ maestro[p].for = "inspect"   \* which need not fetch
        /\ OnlyMaestro(p, [maestro[p] EXCEPT !.at = "fetched"])
        /\ UNCHANGED <<tracking, lock>>
     \/ Refused(p) /\ UNCHANGED tracking
  /\ UNCHANGED <<world, baseline, work>>

\* Dirty comes first, and only a preparation accepts it, on any branch; then
\* the branch; then the two histories.
Judges(p) ==
  LET x == maestro[p]
      behind == x.head \subseteq tracking /\ x.head # tracking
      diverged == ~(x.head \subseteq tracking) /\ ~(tracking \subseteq x.head)
  IN
  /\ Stands(p, "fetched")
  /\ \/ x.for = "inspect" /\ Refused(p)
     \/ x.for # "inspect" /\ ~x.clean /\ (IF x.for = "task" THEN Accepted(p, x.head) ELSE Refused(p))
     \/ x.for # "inspect" /\ x.clean /\ (x.on # "default" \/ diverged) /\ Refused(p)
     \/ /\ x.for # "inspect" /\ x.clean /\ x.on = "default" /\ behind
        /\ OnlyMaestro(p, [x EXCEPT !.at = "merging"]) /\ UNCHANGED lock
     \/ /\ x.for # "inspect" /\ x.clean /\ x.on = "default" /\ tracking \subseteq x.head
        /\ Accepted(p, x.head)
  /\ UNCHANGED <<world, tracking, baseline, work>>

\* merge --ff-only, into the branch the checkout is on by now.
FastForwards(p) ==
  /\ Stands(p, "merging")
  /\ \/ /\ place = "there" /\ heads[branch] \subseteq tracking
        /\ heads' = [heads EXCEPT ![branch] = tracking]
        /\ OnlyMaestro(p, [maestro[p] EXCEPT !.at = "merged"])
        /\ UNCHANGED lock
     \/ Refused(p) /\ UNCHANGED heads
  /\ UNCHANGED <<place, branch, dirty, origin, remote, made, deliveries, died, crossed, repoEvents,
                 tracking, baseline, work>>

LooksAgainNot(p) ==
  /\ Stands(p, "merged")
  /\ Accepted(p, maestro[p].head)
  /\ UNCHANGED <<world, tracking, baseline, work>>
\* The second inspection does not fetch; a checkout that is behind again will do.
LooksAgain(p) ==
  LET head == heads[branch] IN
  /\ Stands(p, "merged")
  /\ IF place = "there" /\ ~dirty /\ branch = "default"
        /\ (head \subseteq tracking \/ tracking \subseteq head)
     THEN Accepted(p, head) ELSE Refused(p)
  /\ UNCHANGED <<world, tracking, baseline, work>>

-----------------------------------------------------------------------------
\* prepareFeatureTaskBaseline

\* validateBaselineEvidence
Evident(ref, commit) == commit \in ref

\* A baseline that is published and up to date is used again; another one is
\* deleted, here and there.  The Task may depend on nothing.
Bases(p) ==
  LET x == maestro[p] IN
  /\ Stands(p, "basing")
  /\ \/ /\ deliveries = {}
        /\ OnlyMaestro(p, [x EXCEPT !.at = "adding"])
        /\ UNCHANGED <<tracking, baseline, crossed>>
     \/ /\ deliveries # {} /\ remote # {} /\ tracking' = remote
        /\ LET owing == [x EXCEPT !.delivery = Latest(deliveries)] IN
           \/ /\ baseline.published # {} /\ x.base \subseteq baseline.published
              /\ Evident(baseline.published, Latest(deliveries))
              /\ baseline' = [baseline EXCEPT !.tracking = baseline.published]
              /\ OnlyMaestro(p, [owing EXCEPT !.at = "adding", !.base = {}])
              /\ UNCHANGED crossed
           \/ /\ baseline.published # {} /\ x.base \subseteq baseline.published
              /\ ~Evident(baseline.published, Latest(deliveries))
              /\ baseline' = [baseline EXCEPT !.tracking = baseline.published]
              /\ OnlyMaestro(p, Uninvolved)
              /\ UNCHANGED crossed
           \/ /\ baseline.published # {} /\ ~(x.base \subseteq baseline.published)
              /\ baseline' = [baseline EXCEPT !.published = {}, !.tracking = {}, !.local = {}]
              /\ OnlyMaestro(p, [owing EXCEPT !.at = "building"])
              /\ Crossed({q \in Maestros \ {p} : ByName(q)})
           \/ /\ baseline.published = {}
              /\ OnlyMaestro(p, [owing EXCEPT !.at = "building"])
              /\ UNCHANGED <<baseline, crossed>>
     \/ OnlyMaestro(p, Uninvolved) /\ UNCHANGED <<tracking, baseline, crossed>>   \* the remote does not answer
  /\ UNCHANGED <<checkout, deliveries, died, repoEvents, lock, work>>

\* A new worktree for it, whose directory may be a leftover; its branch may not.
BuildsBaseline(p) ==
  LET x == maestro[p] IN
  /\ Stands(p, "building")
  /\ IF baseline.local # {}
     THEN OnlyMaestro(p, Uninvolved) /\ baseline' = [baseline EXCEPT !.built = FALSE]
     ELSE /\ baseline' = [baseline EXCEPT !.local = x.base, !.built = TRUE]
          /\ OnlyMaestro(p, [x EXCEPT !.at = "picking"])
  /\ UNCHANGED <<world, tracking, lock, work>>

\* The dependencies are picked and the branch is published; a conflict throws,
\* and a push that fails or meets a baseline another process published.
\* Directory and branch go, unless something is left there.
PublishesBaseline(p) ==
  LET x == maestro[p]  whole == x.base \cup {x.delivery} IN
  /\ Stands(p, "picking")
  /\ \/ /\ baseline.published = {}
        /\ baseline' = [baseline EXCEPT !.published = whole, !.tracking = whole,
                        !.local = {}, !.built = FALSE]
        /\ OnlyMaestro(p, [x EXCEPT !.at = "adding", !.base = {}])
     \/ /\ \/ baseline' = [baseline EXCEPT !.local = {}, !.built = FALSE]
           \/ baseline' = [baseline EXCEPT !.local = whole]
        /\ OnlyMaestro(p, Uninvolved)
  /\ UNCHANGED <<world, tracking, lock, work>>

-----------------------------------------------------------------------------
\* createGitWorktree, and the row of the Task

\* The base is a commit, or the baseline by its name.
AddsWorktree(p) ==
  LET x == maestro[p]
      base == IF x.base # {} THEN x.base ELSE baseline.tracking
  IN
  /\ Stands(p, "adding")
  /\ IF work.dir \/ work.branch \/ base = {} \/ place # "there"
     THEN OnlyMaestro(p, Uninvolved) /\ UNCHANGED work
     ELSE /\ work' = [work EXCEPT !.dir = TRUE, !.branch = TRUE, !.base = base, !.owed = x.owed, !.delivery = x.delivery]
          /\ OnlyMaestro(p, [x EXCEPT !.at = "recording"])
  /\ UNCHANGED <<world, tracking, baseline, lock>>

Records(p) ==
  /\ Stands(p, "recording")
  /\ work' = [work EXCEPT !.row = TRUE]
  /\ OnlyMaestro(p, Uninvolved)
  /\ UNCHANGED <<world, tracking, baseline, lock>>

-----------------------------------------------------------------------------
\* People, the remote and crashes.

RepoEvent == repoEvents < MaxRepoEvents /\ repoEvents' = repoEvents + 1

Dies(p) ==
  /\ RepoEvent /\ maestro[p].at \notin {"idle", "locking"}
  /\ OnlyMaestro(p, Uninvolved)
  /\ lock' = IF lock.by = p THEN [lock EXCEPT !.by = Nobody] ELSE lock
  /\ died' = (died \/ lock.by = p)
  /\ UNCHANGED <<checkout, deliveries, crossed, tracking, baseline, work>>

UserCommits ==
  /\ RepoEvent /\ place = "there" /\ made + 1 \in Commits
  /\ made' = made + 1 /\ dirty' = FALSE
  /\ heads' = [heads EXCEPT ![branch] = @ \cup {made'}]
  /\ UNCHANGED <<place, branch, origin, remote, deliveries, died, crossed, tracking, baseline, lock, maestro, work>>

\* Files are edited or put away, another branch is checked out.
UserWorks ==
  /\ RepoEvent /\ place = "there"
  /\ \/ dirty' = ~dirty /\ UNCHANGED <<branch, heads, crossed>>
     \/ \E b \in Branches \ {branch} :
          /\ heads[branch] # {} /\ branch' = b
          /\ heads' = [heads EXCEPT ![b] = IF @ = {} THEN heads[branch] ELSE @]
          /\ Crossed({p \in Maestros : maestro[p].at \in {"looked", "fetched", "merging"}})
          /\ UNCHANGED dirty
  /\ UNCHANGED <<place, origin, remote, made, deliveries, died, tracking, baseline, lock, maestro, work>>

RemoteGrows ==
  /\ RepoEvent /\ origin /\ made + 1 \in Commits
  /\ made' = made + 1 /\ remote' = remote \cup {made'}
  /\ UNCHANGED <<place, branch, heads, dirty, origin, deliveries, died, crossed, tracking, baseline, lock, maestro, work>>

\* The other Task is delivered, or delivered again after changes.
DependencyDelivers ==
  /\ RepoEvent /\ deliveries # {} /\ made + 1 \in Commits
  /\ made' = made + 1 /\ deliveries' = deliveries \cup {made'}
  /\ UNCHANGED <<place, branch, heads, dirty, origin, remote, died, crossed, tracking, baseline, lock, maestro, work>>

\* The checkout, or the worktree of the Task, is removed.
Removed ==
  /\ RepoEvent
  /\ \/ \E there \in {"moved", "broken"} : place = "there" /\ place' = there /\ UNCHANGED work
     \/ work.dir /\ work' = [work EXCEPT !.dir = FALSE] /\ UNCHANGED place
  /\ UNCHANGED <<branch, heads, dirty, origin, remote, made, deliveries, died, crossed, tracking, baseline, lock, maestro>>

\* A new repository with or without a remote, or one that is in use; the Task
\* depends on a delivered one or on none.
RepoStarts(depends) ==
  /\ place = "there" /\ branch = "default" /\ dirty = FALSE
  /\ origin \in BOOLEAN /\ made = 2
  /\ \E head \in {{}, {1}} :
       /\ heads = [b \in Branches |-> IF b = "default" THEN head ELSE {}]
       /\ remote = IF origin THEN head ELSE {}
       /\ tracking = remote
  /\ deliveries = IF depends THEN {2} ELSE {}
  /\ baseline = [published |-> {}, tracking |-> {}, local |-> {}, built |-> FALSE]
  /\ lock = Unlocked
  /\ maestro = [p \in Maestros |-> Uninvolved]
  /\ work = [dir |-> FALSE, branch |-> FALSE, row |-> FALSE, base |-> {}, owed |-> {},
              delivery |-> 0]
  /\ died = FALSE /\ crossed = FALSE /\ repoEvents = 0

RepoInit == \E depends \in BOOLEAN : RepoStarts(depends)

RepoNext ==
  \/ \E p \in Maestros :
       \/ PrepareStarts(p) \/ Bootstraps(p) \/ SyncStarts(p)
       \/ Acquires(p) \/ LockRefused(p) \/ JudgesOrphan(p) \/ Reclaims(p)
       \/ Looks(p) \/ Fetches(p) \/ Judges(p) \/ FastForwards(p) \/ LooksAgain(p)
       \/ Bases(p) \/ BuildsBaseline(p) \/ PublishesBaseline(p)
       \/ AddsWorktree(p) \/ Records(p) \/ Dies(p)
  \/ LockAges
  \/ UserCommits \/ UserWorks \/ RemoteGrows \/ DependencyDelivers \/ Removed

RepoSpec == RepoInit /\ [][RepoNext]_repoVars

-----------------------------------------------------------------------------
Heads == SUBSET Commits

MaestroState ==
  [at : Critical \cup {"idle", "empty", "locking", "reclaiming", "basing", "building", "picking",
                       "adding", "recording"},
   for : Purposes, head : Heads, on : Branches, clean : BOOLEAN, fetched : Heads, base : Heads,
   owed : Heads, delivery : Nat]
Baseline == [published : Heads, tracking : Heads, local : Heads, built : BOOLEAN]
Lock == [held : BOOLEAN, by : Maestros \cup {Nobody}, old : BOOLEAN]
Worktree == [dir : BOOLEAN, branch : BOOLEAN, row : BOOLEAN, base : Heads, owed : Heads,
             delivery : Nat]

RepoTypeOK ==
  /\ place \in {"there", "moved", "broken"} /\ branch \in Branches
  /\ heads \in [Branches -> Heads] /\ dirty \in BOOLEAN /\ origin \in BOOLEAN
  /\ remote \in Heads /\ tracking \in Heads
  /\ baseline \in Baseline /\ lock \in Lock
  /\ maestro \in [Maestros -> MaestroState] /\ work \in Worktree
  /\ deliveries \in Heads /\ made \in Nat
  /\ died \in BOOLEAN /\ crossed \in BOOLEAN /\ repoEvents \in 0 .. MaxRepoEvents

\* Two processes never inspect and fast-forward the repository at once, however
\* slow the one that holds the lock is, as long as nobody died holding it
\* (acquireSyncLock).
SyncIsExclusive ==
  ~died => \A p, q \in Maestros :
             maestro[p].at \in Critical /\ maestro[q].at \in Critical => p = q

\* The worktree of a Task starts from all it owes: the remote commits its
\* preparation fetched into a clean checkout, and the delivery of the Task it
\* depends on, as it was when the preparation began; although people commit, switch
\* branches and push meanwhile, an earlier attempt left a baseline of an older
\* delivery behind, or another process prepares the Task too.  Two things may cost it
\* that, and `crossed` notes them: a branch switched twice during a synchronization,
\* which takes a checkout that is behind for a base, and a baseline that another
\* process replaces before the worktree is added on it by its name.
PreparedBaseIsWhole ==
  work.row /\ ~crossed =>
    work.owed \subseteq work.base /\ (work.delivery # 0 => work.delivery \in work.base)

\* The repository is one process's at a time, and what it gave the Task is whole.
WorktreeBaseIsSound == SyncIsExclusive /\ PreparedBaseIsWhole
=============================================================================
