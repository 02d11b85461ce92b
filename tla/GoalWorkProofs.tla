--------------------------- MODULE GoalWorkProofs ---------------------------
(***************************************************************************)
(* Proofs about what is around the work of a Goal: the repository it       *)
(* starts from, its validation and its delivery, for any number of         *)
(* processes, commits, edits, failures and deaths and for every project.   *)
(*                                                                         *)
(* No module here uses another: each part has its own inductive invariant. *)
(*                                                                         *)
(* ProjectRepository: a base goes through many hands before it is the      *)
(* worktree's: what was seen of the checkout, the merge, the baseline and  *)
(* its name.  `Holds` says what each stage has of it; the branches and the *)
(* remote only grow.                                                       *)
(*                                                                         *)
(* Validation: PassedReportIsWhole speaks of reports.  What makes it       *)
(* inductive is what a validation that has not failed has achieved so far: *)
(* the gates, each environment it is done with, and that an abort never    *)
(* passes unnoticed.                                                       *)
(*                                                                         *)
(* GoalDelivery: DeliveredIsPublished is not inductive: that the branch    *)
(* has all the work must hold between deliveries too, and a pull request   *)
(* is created only while none is open, which the listing saw one step      *)
(* earlier.                                                                *)
(*                                                                         *)
(* DatabaseMigration: OpenedIsWhole speaks of the end of an opening.  Each *)
(* statement leaves something done for good (`Did`), whoever else opens or *)
(* dies: nothing is ever dropped, and an old row never comes back.  An     *)
(* opening has done every statement it is past.                            *)
(*                                                                         *)
(* LoopGuard: CeilingHolds and RepeatsAreNoticed speak of the history, and *)
(* the code decides by its counters.  `CountersSound` ties the two: while  *)
(* a call lives, its counters know every row that counts and every failure *)
(* a provider reported, those of earlier calls through fromSteps.          *)
(***************************************************************************)
EXTENDS ProjectRepository, Validation, GoalDelivery, DatabaseMigration, LoopGuard,
        NaturalOrder, FiniteSetTheorems, TLAPS

-----------------------------------------------------------------------------
(* The repository, its lock and the base of a worktree                     *)

Covers(base, x) == x.owed \subseteq base /\ (x.delivery # 0 => x.delivery \in base)

\* What a worktree would be added on.
Offered(x) == IF x.base # {} THEN x.base ELSE baseline.tracking

\* The lock is the critical process's.
LockSound ==
  ~died =>
    /\ lock.held => lock.by # Nobody
    /\ \A p \in Maestros : /\ maestro[p].at # "reclaiming"
                           /\ maestro[p].at \in Critical => lock.held /\ lock.by = p

\* What the stages of a preparation have.
Holds(p) ==
  LET x == maestro[p] IN
  /\ x.fetched \subseteq tracking
  /\ x.at = "merging" => x.on = "default"
  /\ x.at \notin {"basing", "building", "picking", "adding", "recording"} => x.owed = {}
  /\ x.at \notin {"building", "picking", "adding", "recording"} => x.delivery = 0
  /\ x.at \in {"building", "picking"} => x.delivery \in Commits
  /\ x.at = "recording" => work.branch
  /\ ~crossed =>
       /\ x.at \in {"looked", "fetched", "merging"} => branch = x.on
       /\ x.at = "merged" => x.fetched \subseteq heads["default"]
       /\ x.at \in {"basing", "building", "picking"} => x.owed \subseteq x.base
       /\ x.at = "adding" => Covers(Offered(x), x)

\* The worktree, once added, has its base for good.
WorkSound ==
  /\ work.row => work.branch
  /\ work.branch /\ ~crossed => Covers(work.base, work)

\* The remote and the dependency only grow; a baseline is known as it is published.
HistorySound ==
  /\ tracking \subseteq remote
  /\ baseline.tracking = baseline.published
  /\ \A d \in deliveries : d <= made
  /\ deliveries # {} => \E d \in deliveries : \A e \in deliveries : e <= d

RInv ==
  /\ RepoTypeOK /\ LockSound /\ WorkSound /\ HistorySound
  /\ \A p \in Maestros : Holds(p)

-----------------------------------------------------------------------------
\* The latest delivery is a delivery.
LEMMA LatestIsDelivered ==
  RInv /\ deliveries # {} => Latest(deliveries) \in deliveries
  BY DEF RInv, HistorySound, Latest

LEMMA RepoInitHolds == RepoInit => RInv
<1> SUFFICES ASSUME NEW depends \in BOOLEAN, RepoStarts(depends) PROVE RInv
  BY DEF RepoInit
<1> USE DEF RepoStarts
<1>1. PICK head \in {{}, {1}} :
        /\ heads = [b \in Branches |-> IF b = "default" THEN head ELSE {}]
        /\ remote = IF origin THEN head ELSE {}
        /\ tracking = remote
  OBVIOUS
<1>2. {} \in Heads /\ {1} \in Heads /\ {2} \in Heads /\ head \in Heads
  BY RepoBounds DEF Heads
<1>3. remote \in Heads /\ tracking \in Heads /\ heads \in [Branches -> Heads]
  BY <1>1, <1>2
<1>4. baseline \in Baseline /\ lock \in Lock /\ work \in Worktree /\ Uninvolved \in MaestroState
  BY <1>2 DEF Baseline, Lock, Worktree, MaestroState, Uninvolved, Unlocked, Purposes, Branches
<1>5. maestro \in [Maestros -> MaestroState] /\ \A p \in Maestros : maestro[p] = Uninvolved
  BY <1>4
<1>6. deliveries \in Heads /\ HistorySound
  BY <1>1, <1>2 DEF HistorySound
<1>7. /\ place \in {"there", "moved", "broken"} /\ branch \in Branches /\ made \in Nat
      /\ origin \in BOOLEAN /\ repoEvents \in 0 .. MaxRepoEvents
  BY RepoBounds DEF Branches
<1>11. dirty \in BOOLEAN /\ died \in BOOLEAN /\ crossed \in BOOLEAN
  OBVIOUS
<1>8. RepoTypeOK
  BY <1>3, <1>4, <1>5, <1>6, <1>7, <1>11 DEF RepoTypeOK
<1>9. LockSound /\ WorkSound
  BY <1>5 DEF LockSound, WorkSound, Critical, Uninvolved, Unlocked
<1>10. \A p \in Maestros : Holds(p)
  BY <1>5 DEF Holds, Uninvolved
<1> QED BY <1>6, <1>8, <1>9, <1>10 DEF RInv

-----------------------------------------------------------------------------
\* A process that does nothing keeps what it has, if nothing shrinks.
LEMMA OthersHold ==
  ASSUME RInv, NEW q \in Maestros, maestro'[q] = maestro[q], tracking \subseteq tracking',
         crossed => crossed', work.branch => work'.branch,
         heads["default"] \subseteq heads'["default"],
         ~crossed' /\ maestro[q].at \in {"looked", "fetched", "merging"} => branch' = branch,
         ~crossed' /\ ByName(q) => baseline.tracking \subseteq baseline'.tracking
  PROVE  Holds(q)'
  BY DEF RInv, Holds, Covers, Offered, ByName

\* A step of one process: besides itself and the lock it may fetch, and change the
\* baseline and the Task; what it deletes is nobody's who is not crossed by it.
LEMMA Turns ==
  ASSUME RInv, NEW p \in Maestros, NEW x \in MaestroState, OnlyMaestro(p, x),
         lock' \in Lock, LockSound', Holds(p)',
         UNCHANGED <<checkout, deliveries, died, repoEvents>>, tracking' \in {tracking, remote},
         baseline' \in Baseline, baseline'.tracking = baseline'.published,
         crossed' \in BOOLEAN, crossed => crossed',
         ~crossed' => \A q \in Maestros \ {p} :
                        ByName(q) => baseline.tracking \subseteq baseline'.tracking,
         work' \in Worktree, WorkSound', work.branch => work'.branch
  PROVE  RInv'
<1>1. /\ maestro' \in [Maestros -> MaestroState] /\ maestro'[p] = x
      /\ \A q \in Maestros \ {p} : maestro'[q] = maestro[q]
  BY DEF OnlyMaestro, RInv, RepoTypeOK
<1>2. \A q \in Maestros \ {p} : Holds(q)'
  <2>1. tracking \subseteq tracking'
    BY DEF RInv, HistorySound
  <2> QED BY <1>1, <2>1, OthersHold DEF checkout
<1>3. RepoTypeOK'
  BY <1>1 DEF RInv, RepoTypeOK, checkout
<1>4. HistorySound'
  BY DEF RInv, HistorySound, checkout
<1> QED BY <1>2, <1>3, <1>4 DEF RInv

\* One process moves, and nothing else does but the lock.
LEMMA Moves ==
  ASSUME RInv, NEW p \in Maestros, NEW x \in MaestroState, OnlyMaestro(p, x),
         lock' \in Lock, LockSound', Holds(p)', UNCHANGED <<world, tracking, baseline, work>>
  PROVE  RInv'
<1>1. /\ UNCHANGED <<checkout, deliveries, died, repoEvents>> /\ UNCHANGED crossed
      /\ tracking' \in {tracking, remote}
  BY DEF world
<1>2. /\ baseline' \in Baseline /\ baseline'.tracking = baseline'.published
      /\ crossed' \in BOOLEAN /\ work' \in Worktree
  BY <1>1 DEF RInv, RepoTypeOK, HistorySound
<1>3. WorkSound'
  BY <1>1 DEF RInv, WorkSound
<1> QED BY <1>1, <1>2, <1>3, Turns

LEMMA RepositoryFacts ==
  ASSUME RInv, NEW p \in Maestros
  PROVE  /\ maestro[p] \in MaestroState /\ maestro \in [Maestros -> MaestroState] /\ lock \in Lock
         /\ Holds(p) /\ LockSound /\ heads \in [Branches -> Heads] /\ branch \in Branches
         /\ heads[branch] \in Heads /\ remote \in Heads /\ tracking \in Heads
         /\ dirty \in BOOLEAN /\ baseline \in Baseline /\ work \in Worktree
  BY DEF RInv, RepoTypeOK

\* The lock as it is serves a process that does not come to need it.
LEMMA LockKept ==
  ASSUME RInv, NEW p \in Maestros, NEW x, OnlyMaestro(p, x), x.at # "reclaiming",
         x.at \in Critical => maestro[p].at \in Critical, UNCHANGED <<lock, died>>
  PROVE  LockSound'
  BY RepositoryFacts DEF LockSound, OnlyMaestro

\* Only the process that leaves the critical part gives the lock back.
LEMMA LockReleased ==
  ASSUME RInv, NEW p \in Maestros, NEW x, OnlyMaestro(p, x), x.at \notin Critical \cup {"reclaiming"},
         maestro[p].at \in Critical, lock' = Released(p), UNCHANGED died
  PROVE  lock' \in Lock /\ LockSound'
<1>1. lock' \in Lock
  BY RepositoryFacts DEF Released, Unlocked, Lock
<1>2. LockSound'
  BY RepositoryFacts DEF LockSound, Released, Unlocked, OnlyMaestro
<1> QED BY <1>1, <1>2

LEMMA UninvolvedTyped == Uninvolved \in MaestroState
  BY DEF MaestroState, Uninvolved, Purposes, Branches, Heads

LEMMA UninvolvedHolds ==
  ASSUME RInv, NEW p \in Maestros, OnlyMaestro(p, Uninvolved)
  PROVE  Uninvolved \in MaestroState /\ Holds(p)'
<1>1. maestro'[p] = Uninvolved
  BY RepositoryFacts DEF OnlyMaestro
<1> QED BY <1>1, UninvolvedTyped DEF Holds, Uninvolved

LEMMA GivesUp ==
  ASSUME RInv, NEW p \in Maestros, OnlyMaestro(p, Uninvolved),
         UNCHANGED <<world, tracking, baseline, lock, work>>
  PROVE  RInv'
<1>1. Uninvolved.at = "idle"
  BY DEF Uninvolved
<1>2. LockSound'
  BY <1>1, LockKept DEF world, Critical
<1> QED BY <1>2, UninvolvedHolds, RepositoryFacts, Moves

LEMMA RefusedStep ==
  ASSUME RInv, NEW p \in Maestros, maestro[p].at \in Critical, Refused(p),
         UNCHANGED <<world, tracking, baseline, work>>
  PROVE  RInv'
<1>1. OnlyMaestro(p, Uninvolved) /\ lock' = Released(p) /\ Uninvolved.at = "idle"
  BY DEF Refused, Uninvolved
<1>2. lock' \in Lock /\ LockSound'
  BY <1>1, LockReleased DEF world, Critical
<1> QED BY <1>1, <1>2, UninvolvedHolds, Moves

\* A preparation that is accepted with a commit that reaches what was fetched.
LEMMA AcceptedStep ==
  ASSUME RInv, NEW p \in Maestros, maestro[p].at \in Critical, NEW head \in Heads,
         Accepted(p, head), ~crossed /\ maestro[p].clean => maestro[p].fetched \subseteq head,
         UNCHANGED <<world, tracking, baseline, work>>
  PROVE  RInv'
<1> DEFINE x == maestro[p]
           y == [x EXCEPT !.at = "basing", !.base = head,
                          !.owed = IF x.clean THEN x.fetched ELSE {}]
<1>1. CASE x.for # "task"
  <2>1. Refused(p)
    BY <1>1 DEF Accepted, Refused
  <2> QED BY <2>1, RefusedStep
<1>2. CASE x.for = "task"
  <2>1. OnlyMaestro(p, y) /\ lock' = Released(p)
    BY <1>2 DEF Accepted
  <2>2. /\ y \in MaestroState /\ y.at = "basing" /\ y.base = head /\ y.fetched = x.fetched
        /\ y.owed = (IF x.clean THEN x.fetched ELSE {}) /\ y.delivery = x.delivery
    BY RepositoryFacts DEF MaestroState, Heads
  <2> HIDE DEF y
  <2>3. lock' \in Lock /\ LockSound'
    BY <2>1, <2>2, LockReleased DEF world, Critical
  <2>4. maestro'[p] = y
    BY <2>1, RepositoryFacts DEF OnlyMaestro
  <2>5. Holds(p)'
    BY <2>2, <2>4, RepositoryFacts DEF Holds, Critical, world, checkout
  <2> QED BY <2>1, <2>2, <2>3, <2>5, Moves
<1> QED BY <1>1, <1>2

-----------------------------------------------------------------------------
\* Up to the lock.

LEMMA PrepareStep ==
  ASSUME RInv, NEW p \in Maestros, PrepareStarts(p) \/ SyncStarts(p) PROVE RInv'
<1>1. /\ maestro[p].at = "idle" /\ UNCHANGED <<world, tracking, baseline, lock, work>>
  BY DEF PrepareStarts, SyncStarts, Stands
<1>2. ASSUME NEW for \in Purposes, NEW at \in {"empty", "locking"},
             OnlyMaestro(p, [Uninvolved EXCEPT !.for = for, !.at = at])
      PROVE  RInv'
  <2> DEFINE x == [Uninvolved EXCEPT !.for = for, !.at = at]
  <2>1. /\ x \in MaestroState /\ x.at = at /\ x.fetched = {} /\ x.owed = {} /\ x.delivery = 0
    BY UninvolvedTyped DEF MaestroState, Uninvolved
  <2>2. OnlyMaestro(p, x)
    BY <1>2
  <2> HIDE DEF x
  <2>3. maestro'[p] = x
    BY <2>2, RepositoryFacts DEF OnlyMaestro
  <2>4. Holds(p)' /\ LockSound'
    BY <1>1, <2>1, <2>2, <2>3, LockKept DEF Holds, Critical, world
  <2> QED BY <1>1, <2>1, <2>2, <2>4, RepositoryFacts, Moves
<1>3. CASE PrepareStarts(p)
  <2>1. CASE OnlyMaestro(p, Uninvolved)
    BY <1>1, <2>1, GivesUp
  <2>2. CASE ~OnlyMaestro(p, Uninvolved)
    <3>1. PICK at \in {"empty", "locking"} :
            OnlyMaestro(p, [Uninvolved EXCEPT !.for = "task", !.at = at])
      BY <1>3, <2>2 DEF PrepareStarts
    <3> QED BY <1>2, <3>1 DEF Purposes
  <2> QED BY <2>1, <2>2
<1>4. CASE SyncStarts(p)
  <2>1. PICK purpose \in {"sync", "inspect"} :
          OnlyMaestro(p, [Uninvolved EXCEPT !.for = purpose, !.at = "locking"])
    BY <1>4 DEF SyncStarts
  <2> QED BY <1>2, <2>1 DEF Purposes
<1> QED BY <1>3, <1>4

\* A step of a process that keeps all but where it stands.
LEMMA OnlyAt ==
  ASSUME RInv, NEW p \in Maestros, NEW at, [maestro[p] EXCEPT !.at = at] \in MaestroState,
         OnlyMaestro(p, [maestro[p] EXCEPT !.at = at])
  PROVE  /\ maestro'[p].at = at /\ maestro'[p].head = maestro[p].head
         /\ maestro'[p].on = maestro[p].on /\ maestro'[p].clean = maestro[p].clean
         /\ maestro'[p].for = maestro[p].for /\ maestro'[p].base = maestro[p].base
         /\ maestro'[p].fetched = maestro[p].fetched /\ maestro'[p].owed = maestro[p].owed
         /\ maestro'[p].delivery = maestro[p].delivery
  BY RepositoryFacts DEF OnlyMaestro, MaestroState

LEMMA AtTyped ==
  ASSUME RInv, NEW p \in Maestros,
         NEW at \in Critical \cup {"locking", "reclaiming", "adding", "recording"}
  PROVE  [maestro[p] EXCEPT !.at = at] \in MaestroState
  BY RepositoryFacts DEF MaestroState

\* Where the first commit is made the branch had none.
LEMMA BootstrapStep == ASSUME RInv, NEW p \in Maestros, Bootstraps(p) PROVE RInv'
<1>1. /\ maestro[p].at = "empty"
      /\ UNCHANGED <<place, branch, origin, baseline, lock, work, deliveries, died, crossed, repoEvents>>
  BY DEF Bootstraps, Stands
<1> DEFINE y == [maestro[p] EXCEPT !.at = "locking"]
<1>2. y \in MaestroState
  BY AtTyped
<1>3. \/ OnlyMaestro(p, Uninvolved)
      \/ OnlyMaestro(p, y)
  BY DEF Bootstraps
<1>4. maestro' \in [Maestros -> MaestroState] /\ \A q \in Maestros \ {p} : maestro'[q] = maestro[q]
  BY <1>2, <1>3, UninvolvedTyped, RepositoryFacts DEF OnlyMaestro
<1>5. LockSound'
  <2>1. Uninvolved.at = "idle"
    BY DEF Uninvolved
  <2>2. y.at = "locking"
    BY RepositoryFacts DEF MaestroState
  <2> HIDE DEF y
  <2> QED BY <1>1, <1>3, <2>1, <2>2, LockKept DEF Critical
<1>6. /\ made' \in Nat /\ made <= made' /\ remote' \in Heads /\ tracking' \in Heads
      /\ tracking' \subseteq remote' /\ tracking \subseteq tracking' /\ dirty' \in BOOLEAN
      /\ heads' \in [Branches -> Heads] /\ heads["default"] \subseteq heads'["default"]
  <2>1. tracking \subseteq remote /\ made \in Nat /\ "default" \in Branches
    BY DEF RInv, HistorySound, RepoTypeOK, Branches
  <2>2. CASE UNCHANGED <<heads, remote, tracking, made>>
    <3>1. dirty' = TRUE \/ dirty' = dirty
      BY <2>2 DEF Bootstraps
    <3>2. made <= made'
      BY <2>1, <2>2
    <3> QED BY <2>1, <2>2, <3>1, <3>2, RepositoryFacts
  <2>3. CASE /\ heads[branch] = {} /\ made + 1 \in Commits /\ made' = made + 1
             /\ heads' = [heads EXCEPT ![branch] = {made'}] /\ dirty' = dirty
             /\ \/ UNCHANGED <<remote, tracking>>
                \/ remote = {} /\ remote' = {made'} /\ tracking' = {made'}
    <3>1. {made'} \in Heads
      BY <2>3 DEF Heads
    <3> QED BY <2>1, <2>3, <3>1, RepositoryFacts
  <2> QED BY <2>2, <2>3 DEF Bootstraps
<1>7. RepoTypeOK'
  BY <1>1, <1>4, <1>6 DEF RInv, RepoTypeOK
<1>8. WorkSound' /\ HistorySound'
  <2>1. WorkSound'
    BY <1>1 DEF RInv, WorkSound
  <2>2. \A d \in deliveries : d <= made'
    <3> SUFFICES ASSUME NEW d \in deliveries PROVE d <= made'
      OBVIOUS
    <3>1. d \in Nat /\ d <= made /\ made \in Nat
      BY RepoBounds DEF RInv, RepoTypeOK, HistorySound, Heads
    <3> QED BY <1>6, <3>1
  <2> QED BY <1>1, <1>6, <2>1, <2>2 DEF RInv, HistorySound
<1>9. \A q \in Maestros \ {p} : Holds(q)'
  BY <1>1, <1>4, <1>6, OthersHold
<1>10. Holds(p)'
  <2>1. CASE OnlyMaestro(p, Uninvolved)
    BY <2>1, UninvolvedHolds
  <2>2. CASE OnlyMaestro(p, y)
    BY <1>1, <1>2, <1>6, <2>2, OnlyAt, RepositoryFacts DEF Holds
  <2> QED BY <1>3, <2>1, <2>2
<1> QED BY <1>5, <1>7, <1>8, <1>9, <1>10 DEF RInv

-----------------------------------------------------------------------------
\* The lock.

LEMMA AcquireStep == ASSUME RInv, NEW p \in Maestros, Acquires(p) \/ Reclaims(p) PROVE RInv'
<1>1. /\ maestro[p].at \in {"locking", "reclaiming"} /\ lock' = [held |-> TRUE, by |-> p, old |-> FALSE]
      /\ OnlyMaestro(p, [maestro[p] EXCEPT !.at = "locked"])
      /\ UNCHANGED <<world, tracking, baseline, work>>
  BY DEF Acquires, Reclaims, Stands
<1> DEFINE y == [maestro[p] EXCEPT !.at = "locked"]
<1>2. y \in MaestroState
  BY AtTyped DEF Critical
<1>3. Holds(p)'
  <2>1. UNCHANGED <<heads, branch, crossed, tracking, baseline, work>>
    BY <1>1 DEF world, checkout
  <2>2. /\ maestro'[p].at = "locked" /\ maestro'[p].fetched = maestro[p].fetched
        /\ maestro'[p].owed = maestro[p].owed /\ maestro'[p].delivery = maestro[p].delivery
    BY <1>1, <1>2, OnlyAt
  <2>3. Holds(p) /\ maestro[p].at \in {"locking", "reclaiming"}
    BY <1>1, RepositoryFacts
  <2> QED BY <2>1, <2>2, <2>3 DEF Holds
<1>4. lock' \in Lock
  BY <1>1 DEF Lock
<1>5. LockSound'
  <2> SUFFICES ASSUME ~died, NEW q \in Maestros
               PROVE  /\ lock'.by # Nobody /\ maestro'[q].at # "reclaiming"
                      /\ maestro'[q].at \in Critical => lock'.held /\ lock'.by = q
    BY <1>1 DEF LockSound, world
  <2>1. Acquires(p) /\ ~lock.held
    BY <1>1, RepositoryFacts DEF LockSound, Acquires, Reclaims, Stands
  <2>2. CASE q = p
    BY <1>1, <1>2, <2>2, OnlyAt, RepoBounds DEF Critical
  <2>3. CASE q # p
    <3>1. maestro'[q] = maestro[q] /\ maestro[q].at \notin Critical \cup {"reclaiming"}
      BY <1>1, <2>1, <2>3, RepositoryFacts DEF OnlyMaestro, LockSound
    <3> QED BY <1>1, <3>1, RepoBounds
  <2> QED BY <2>2, <2>3
<1> QED BY <1>1, <1>2, <1>3, <1>4, <1>5, Moves

LEMMA RefusedLockStep ==
  ASSUME RInv, NEW p \in Maestros, LockRefused(p) \/ JudgesOrphan(p) PROVE RInv'
<1>1. CASE LockRefused(p)
  BY <1>1, GivesUp DEF LockRefused
<1>2. CASE JudgesOrphan(p)
  <2>1. /\ maestro[p].at = "locking" /\ Orphaned
        /\ OnlyMaestro(p, [maestro[p] EXCEPT !.at = "reclaiming"])
        /\ UNCHANGED <<world, tracking, baseline, lock, work>>
    BY <1>2 DEF JudgesOrphan, Stands
  <2>2. [maestro[p] EXCEPT !.at = "reclaiming"] \in MaestroState
    BY AtTyped
  <2>3. Holds(p)'
    <3>1. /\ maestro'[p].at = "reclaiming" /\ maestro'[p].fetched = maestro[p].fetched
          /\ maestro'[p].owed = maestro[p].owed /\ maestro'[p].delivery = maestro[p].delivery
      BY <2>1, <2>2, OnlyAt
    <3> QED BY <2>1, <3>1, RepositoryFacts DEF Holds
  <2>4. died /\ LockSound'
    BY <2>1, RepositoryFacts DEF LockSound, Orphaned, world
  <2> QED BY <2>1, <2>2, <2>3, <2>4, RepositoryFacts, Moves
<1> QED BY <1>1, <1>2

LEMMA AgeStep == RInv /\ LockAges => RInv'
<1> SUFFICES ASSUME RInv, LockAges PROVE RInv'
  OBVIOUS
<1>1. /\ lock' = [lock EXCEPT !.old = TRUE]
      /\ UNCHANGED <<world, tracking, baseline, maestro, work>>
  BY DEF LockAges
<1>2. lock' \in Lock /\ lock'.held = lock.held /\ lock'.by = lock.by
  BY <1>1 DEF RInv, RepoTypeOK, Lock
<1>3. \A q \in Maestros : Holds(q)'
  BY <1>1, OthersHold DEF world, checkout
<1> QED
  BY <1>1, <1>2, <1>3 DEF RInv, RepoTypeOK, LockSound, WorkSound, HistorySound, world, checkout

-----------------------------------------------------------------------------
\* The synchronization.

LEMMA LooksStep == ASSUME RInv, NEW p \in Maestros, Looks(p) PROVE RInv'
<1>1. maestro[p].at = "locked" /\ UNCHANGED <<world, tracking, baseline, work>>
  BY DEF Looks, Stands
<1> DEFINE m == maestro[p]  y == Looking(m)
           z == [y EXCEPT !.at = "basing", !.base = heads[branch]]
<1>2. /\ y \in MaestroState /\ y.at = "looked" /\ y.on = branch
      /\ y.fetched = m.fetched /\ y.owed = m.owed /\ y.delivery = m.delivery
  BY RepositoryFacts DEF Looking, MaestroState, Critical
<1>3. /\ z \in MaestroState /\ z.at = "basing"
      /\ z.fetched = m.fetched /\ z.owed = m.owed /\ z.delivery = m.delivery
  BY <1>2, RepositoryFacts DEF MaestroState
<1>4. m.owed = {} /\ m.delivery = 0 /\ m.fetched \subseteq tracking
  BY <1>1, RepositoryFacts DEF Holds
<1>5. \/ Refused(p)
      \/ OnlyMaestro(p, z) /\ lock' = Released(p)
      \/ OnlyMaestro(p, y) /\ UNCHANGED lock
  BY DEF Looks, Refused
<1> HIDE DEF y, z
<1>6. CASE Refused(p)
  BY <1>1, <1>6, RefusedStep DEF Critical
<1>7. CASE OnlyMaestro(p, z) /\ lock' = Released(p)
  <2>1. lock' \in Lock /\ LockSound'
    BY <1>1, <1>3, <1>7, LockReleased DEF Critical, world
  <2>2. maestro'[p] = z
    BY <1>7, RepositoryFacts DEF OnlyMaestro
  <2>3. Holds(p)'
    BY <1>1, <1>3, <1>4, <2>2 DEF Holds
  <2> QED BY <1>1, <1>3, <1>7, <2>1, <2>3, Moves
<1>8. CASE OnlyMaestro(p, y) /\ UNCHANGED lock
  <2>1. lock' \in Lock /\ LockSound'
    BY <1>1, <1>2, <1>8, RepositoryFacts, LockKept DEF Critical, world
  <2>2. maestro'[p] = y
    BY <1>8, RepositoryFacts DEF OnlyMaestro
  <2>3. Holds(p)'
    BY <1>1, <1>2, <1>4, <2>2 DEF Holds, world, checkout
  <2> QED BY <1>1, <1>2, <1>8, <2>1, <2>3, Moves
<1> QED BY <1>5, <1>6, <1>7, <1>8

\* The baseline and the Task stay as they are.
LEMMA TaskStays ==
  ASSUME RInv, UNCHANGED <<baseline, work, crossed>>
  PROVE  /\ baseline' \in Baseline /\ baseline'.tracking = baseline'.published
         /\ crossed' \in BOOLEAN /\ work' \in Worktree /\ WorkSound'
  BY DEF RInv, RepoTypeOK, HistorySound, WorkSound

LEMMA FetchesStep == ASSUME RInv, NEW p \in Maestros, Fetches(p) PROVE RInv'
<1>1. maestro[p].at = "looked" /\ UNCHANGED <<world, baseline, work>>
  BY DEF Fetches, Stands
<1> DEFINE m == maestro[p]
<1>2. CASE Refused(p) /\ UNCHANGED tracking
  BY <1>1, <1>2, RefusedStep DEF Critical
<1>3. ASSUME NEW f \in {m.fetched, remote},
             OnlyMaestro(p, [m EXCEPT !.at = "fetched", !.fetched = f]),
             f \subseteq tracking', tracking' \in {tracking, remote}, UNCHANGED lock
      PROVE  RInv'
  <2> DEFINE y == [m EXCEPT !.at = "fetched", !.fetched = f]
  <2>1. /\ y \in MaestroState /\ y.at = "fetched" /\ y.on = m.on
        /\ y.fetched = f /\ y.owed = m.owed /\ y.delivery = m.delivery
    BY RepositoryFacts DEF MaestroState, Critical
  <2>2. OnlyMaestro(p, y)
    BY <1>3
  <2> HIDE DEF y
  <2>3. lock' \in Lock /\ LockSound'
    BY <1>1, <1>3, <2>1, <2>2, RepositoryFacts, LockKept DEF Critical, world
  <2>4. maestro'[p] = y
    BY <2>2, RepositoryFacts DEF OnlyMaestro
  <2>5. Holds(p)'
    BY <1>1, <1>3, <2>1, <2>4, RepositoryFacts DEF Holds, world, checkout
  <2>6. UNCHANGED <<checkout, deliveries, died, crossed, repoEvents>>
    BY <1>1 DEF world
  <2> QED BY <1>1, <1>3, <2>1, <2>2, <2>3, <2>5, <2>6, TaskStays, Turns
<1>4. ASSUME OnlyMaestro(p, [m EXCEPT !.at = "fetched"])
      PROVE  OnlyMaestro(p, [m EXCEPT !.at = "fetched", !.fetched = m.fetched])
  BY <1>4, RepositoryFacts DEF MaestroState, OnlyMaestro
<1> QED
  <2>1. CASE /\ OnlyMaestro(p, [m EXCEPT !.at = "fetched", !.fetched = remote])
             /\ tracking' = remote /\ UNCHANGED lock
    BY <1>3, <2>1
  <2>2. CASE OnlyMaestro(p, [m EXCEPT !.at = "fetched"]) /\ UNCHANGED <<tracking, lock>>
    <3>1. m.fetched \subseteq tracking'
      BY <2>2, RepositoryFacts DEF Holds
    <3> QED BY <1>3, <1>4, <2>2, <3>1
  <2> QED BY <1>2, <2>1, <2>2 DEF Fetches

LEMMA JudgesStep == ASSUME RInv, NEW p \in Maestros, Judges(p) PROVE RInv'
<1> DEFINE m == maestro[p]
<1>1. m.at = "fetched" /\ UNCHANGED <<world, tracking, baseline, work>>
  BY DEF Judges, Stands
<1>2. m.head \in Heads /\ m.fetched \subseteq tracking
  BY RepositoryFacts DEF MaestroState, Holds
<1>3. CASE Refused(p)
  BY <1>1, <1>3, RefusedStep DEF Critical
<1>4. CASE Accepted(p, m.head) /\ (m.clean => tracking \subseteq m.head)
  BY <1>1, <1>2, <1>4, AcceptedStep DEF Critical
<1>5. CASE m.on = "default" /\ OnlyMaestro(p, [m EXCEPT !.at = "merging"]) /\ UNCHANGED lock
  <2>1. [m EXCEPT !.at = "merging"] \in MaestroState
    BY AtTyped DEF Critical
  <2> DEFINE y == [m EXCEPT !.at = "merging"]
  <2>2. y.at = "merging"
    BY RepositoryFacts DEF MaestroState
  <2>3. OnlyMaestro(p, y)
    BY <1>5
  <2>4. /\ maestro'[p].at = "merging" /\ maestro'[p].fetched = m.fetched
        /\ maestro'[p].owed = m.owed /\ maestro'[p].delivery = m.delivery /\ maestro'[p].on = m.on
    BY <1>5, <2>1, OnlyAt
  <2>5. Holds(p)'
    BY <1>1, <1>5, <2>4, RepositoryFacts DEF Holds, world, checkout
  <2> HIDE DEF y
  <2>6. LockSound'
    BY <1>1, <1>5, <2>2, <2>3, LockKept DEF Critical, world
  <2> QED BY <1>1, <1>5, <2>1, <2>3, <2>5, <2>6, RepositoryFacts, Moves DEF y
<1> QED BY <1>3, <1>4, <1>5 DEF Judges

\* The merge grows a branch; it is the default one if nobody crossed it.
LEMMA FastForwardsStep == ASSUME RInv, NEW p \in Maestros, FastForwards(p) PROVE RInv'
<1> DEFINE m == maestro[p]
<1>1. /\ m.at = "merging"
      /\ UNCHANGED <<place, branch, dirty, origin, remote, made, deliveries, died, crossed,
                     repoEvents, tracking, baseline, work>>
  BY DEF FastForwards, Stands
<1>2. CASE Refused(p) /\ UNCHANGED heads
  BY <1>1, <1>2, RefusedStep DEF Critical, world, checkout
<1>3. CASE /\ heads[branch] \subseteq tracking /\ heads' = [heads EXCEPT ![branch] = tracking]
           /\ OnlyMaestro(p, [m EXCEPT !.at = "merged"]) /\ UNCHANGED lock
  <2>1. [m EXCEPT !.at = "merged"] \in MaestroState
    BY AtTyped DEF Critical
  <2>2. /\ maestro'[p].at = "merged" /\ maestro'[p].fetched = m.fetched
        /\ maestro'[p].owed = m.owed /\ maestro'[p].delivery = m.delivery
    BY <1>3, <2>1, OnlyAt
  <2>3. heads' \in [Branches -> Heads] /\ heads["default"] \subseteq heads'["default"]
    BY <1>3, RepositoryFacts DEF Branches
  <2>4. Holds(p)'
    <3>1. ~crossed => heads'["default"] = tracking
      BY <1>1, <1>3, RepositoryFacts DEF Holds
    <3> QED BY <1>1, <2>2, <3>1, RepositoryFacts DEF Holds
  <2>5. LockSound'
    <3> DEFINE y == [m EXCEPT !.at = "merged"]
    <3>1. OnlyMaestro(p, y) /\ y.at = "merged"
      BY <1>3, RepositoryFacts DEF MaestroState
    <3> HIDE DEF y
    <3> QED BY <1>1, <1>3, <3>1, LockKept DEF Critical
  <2>6. /\ maestro' \in [Maestros -> MaestroState]
        /\ \A q \in Maestros \ {p} : maestro'[q] = maestro[q]
    BY <1>3, <2>1, RepositoryFacts DEF OnlyMaestro
  <2>7. \A q \in Maestros \ {p} : Holds(q)'
    BY <1>1, <2>3, <2>6, OthersHold
  <2>8. RepoTypeOK'
    BY <1>1, <1>3, <2>3, <2>6 DEF RInv, RepoTypeOK
  <2>9. WorkSound' /\ HistorySound'
    BY <1>1 DEF RInv, WorkSound, HistorySound
  <2> QED BY <2>4, <2>5, <2>7, <2>8, <2>9 DEF RInv
<1> QED BY <1>2, <1>3 DEF FastForwards

LEMMA LooksAgainStep == ASSUME RInv, NEW p \in Maestros, LooksAgain(p) PROVE RInv'
<1>1. maestro[p].at = "merged" /\ UNCHANGED <<world, tracking, baseline, work>>
  BY DEF LooksAgain, Stands
<1>2. CASE Refused(p)
  BY <1>1, <1>2, RefusedStep DEF Critical
<1>3. CASE branch = "default" /\ Accepted(p, heads[branch])
  <2>1. ~crossed => maestro[p].fetched \subseteq heads[branch]
    BY <1>1, <1>3, RepositoryFacts DEF Holds
  <2> QED BY <1>1, <1>3, <2>1, RepositoryFacts, AcceptedStep DEF Critical
<1> QED BY <1>2, <1>3 DEF LooksAgain

-----------------------------------------------------------------------------
\* The baseline and the worktree.

\* A preparation that has left the critical part stays out of it.
LEMMA BaseIsPrepared ==
  ASSUME RInv, NEW p \in Maestros, NEW x \in MaestroState, OnlyMaestro(p, x), Holds(p)',
         maestro[p].at \in {"basing", "building", "picking", "adding", "recording"},
         x.at \in {"idle", "building", "picking", "adding", "recording"},
         UNCHANGED <<checkout, deliveries, died, repoEvents, lock>>,
         tracking' \in {tracking, remote},
         baseline' \in Baseline, baseline'.tracking = baseline'.published,
         crossed' \in BOOLEAN, crossed => crossed',
         ~crossed' => \A q \in Maestros \ {p} :
                        ByName(q) => baseline.tracking \subseteq baseline'.tracking,
         work' \in Worktree, WorkSound', work.branch => work'.branch
  PROVE  RInv'
<1>1. LockSound'
  BY LockKept DEF Critical
<1> QED BY <1>1, RepositoryFacts, Turns

LEMMA BasesStep == ASSUME RInv, NEW p \in Maestros, Bases(p) PROVE RInv'
<1> DEFINE x == maestro[p]
<1>1. x.at = "basing" /\ UNCHANGED <<checkout, deliveries, died, repoEvents, lock, work>>
  BY DEF Bases, Stands
<1>2. /\ x \in MaestroState /\ Holds(p) /\ x.delivery = 0
      /\ ~crossed => x.owed \subseteq x.base
      /\ baseline \in Baseline /\ baseline.tracking = baseline.published
      /\ crossed \in BOOLEAN /\ deliveries \in Heads
  BY <1>1, RepositoryFacts DEF Holds, RInv, RepoTypeOK, HistorySound
<1>3. work' \in Worktree /\ work'.branch = work.branch
  BY <1>1 DEF RInv, RepoTypeOK
<1>4. ASSUME crossed => crossed' PROVE WorkSound'
  BY <1>1, <1>4 DEF RInv, WorkSound
<1>5. CASE OnlyMaestro(p, Uninvolved) /\ UNCHANGED <<baseline, crossed>> /\ tracking' \in {tracking, remote}
  BY <1>1, <1>2, <1>3, <1>4, <1>5, UninvolvedHolds, BaseIsPrepared DEF Uninvolved
<1>6. CASE OnlyMaestro(p, [x EXCEPT !.at = "adding"]) /\ UNCHANGED <<tracking, baseline, crossed>>
  <2> DEFINE y == [x EXCEPT !.at = "adding"]
  <2>1. /\ y \in MaestroState /\ y.at = "adding" /\ y.base = x.base /\ y.owed = x.owed
        /\ y.delivery = 0 /\ y.fetched = x.fetched
    BY <1>2 DEF MaestroState
  <2>2. OnlyMaestro(p, y)
    BY <1>6
  <2> HIDE DEF y
  <2>3. maestro'[p] = y
    BY <2>2, RepositoryFacts DEF OnlyMaestro
  <2>4. Holds(p)'
    BY <1>2, <1>6, <2>1, <2>3 DEF Holds, Covers, Offered
  <2> QED BY <1>1, <1>2, <1>3, <1>4, <1>6, <2>1, <2>2, <2>4, BaseIsPrepared
<1> DEFINE owing == [x EXCEPT !.delivery = Latest(deliveries)]
           y == [owing EXCEPT !.at = "adding", !.base = {}]
           z == [owing EXCEPT !.at = "building"]
<1>7. ASSUME deliveries # {}, tracking' = remote, OnlyMaestro(p, y),
             x.base \subseteq baseline.published, Latest(deliveries) \in baseline.published,
             UNCHANGED <<baseline, crossed>>
      PROVE  RInv'
  <2>1. /\ y \in MaestroState /\ y.at = "adding" /\ y.base = {} /\ y.owed = x.owed
        /\ y.delivery = Latest(deliveries) /\ y.fetched = x.fetched
    <3>1. Latest(deliveries) \in Nat
      BY <1>2, <1>7, LatestIsDelivered, RepoBounds DEF Heads
    <3> QED BY <1>2, <3>1 DEF MaestroState, Heads
  <2> HIDE DEF y
  <2>2. maestro'[p] = y
    BY <1>7, RepositoryFacts DEF OnlyMaestro
  <2>3. Holds(p)'
    <3>1. x.fetched \subseteq tracking'
      BY <1>2, <1>7 DEF Holds, RInv, HistorySound
    <3> QED BY <1>2, <1>7, <2>1, <2>2, <3>1 DEF Holds, Covers, Offered
  <2> QED BY <1>1, <1>2, <1>3, <1>4, <1>7, <2>1, <2>3, BaseIsPrepared
<1>8. ASSUME deliveries # {}, tracking' = remote, OnlyMaestro(p, z),
             baseline' \in Baseline, baseline'.tracking = baseline'.published,
             crossed' \in BOOLEAN, crossed => crossed',
             ~crossed' => \A q \in Maestros \ {p} :
                            ByName(q) => baseline.tracking \subseteq baseline'.tracking
      PROVE  RInv'
  <2>1. Latest(deliveries) \in Commits /\ Latest(deliveries) \in Nat
    BY <1>2, <1>8, LatestIsDelivered, RepoBounds DEF Heads
  <2>2. /\ z \in MaestroState /\ z.at = "building" /\ z.base = x.base /\ z.owed = x.owed
        /\ z.delivery = Latest(deliveries) /\ z.fetched = x.fetched
    BY <1>2, <2>1 DEF MaestroState
  <2> HIDE DEF z
  <2>3. maestro'[p] = z
    BY <1>8, RepositoryFacts DEF OnlyMaestro
  <2>4. Holds(p)'
    <3>1. x.fetched \subseteq tracking'
      BY <1>2, <1>8 DEF Holds, RInv, HistorySound
    <3> QED BY <1>2, <1>8, <2>1, <2>2, <2>3, <3>1 DEF Holds
  <2>5. WorkSound'
    BY <1>4, <1>8
  <2> QED BY <1>1, <1>3, <1>8, <2>2, <2>4, <2>5, BaseIsPrepared
<1>9. UNCHANGED baseline <=> baseline' = [baseline EXCEPT !.tracking = baseline.published]
  BY <1>2 DEF Baseline
<1>10. CASE deliveries # {} /\ tracking' = remote /\ OnlyMaestro(p, z) /\ UNCHANGED <<baseline, crossed>>
  BY <1>2, <1>8, <1>10
<1>11. CASE /\ deliveries # {} /\ tracking' = remote /\ OnlyMaestro(p, z)
            /\ baseline' = [baseline EXCEPT !.published = {}, !.tracking = {}, !.local = {}]
            /\ Crossed({q \in Maestros \ {p} : ByName(q)})
  <2>1. /\ baseline' \in Baseline /\ baseline'.tracking = baseline'.published
    BY <1>2, <1>11 DEF Baseline, Heads
  <2>2. /\ crossed' \in BOOLEAN
        /\ crossed => crossed'
        /\ ~crossed' => \A q \in Maestros \ {p} : ~ByName(q)
    BY <1>2, <1>11 DEF Crossed
  <2> QED BY <1>8, <1>11, <2>1, <2>2
<1> HIDE DEF y, z
<1>12. \/ OnlyMaestro(p, Uninvolved) /\ UNCHANGED <<baseline, crossed>> /\ tracking' \in {tracking, remote}
       \/ OnlyMaestro(p, [x EXCEPT !.at = "adding"]) /\ UNCHANGED <<tracking, baseline, crossed>>
       \/ /\ deliveries # {} /\ tracking' = remote /\ UNCHANGED crossed
          /\ x.base \subseteq baseline.published /\ Latest(deliveries) \in baseline.published
          /\ UNCHANGED baseline /\ OnlyMaestro(p, y)
       \/ deliveries # {} /\ tracking' = remote /\ OnlyMaestro(p, z) /\ UNCHANGED <<baseline, crossed>>
       \/ /\ deliveries # {} /\ tracking' = remote /\ OnlyMaestro(p, z)
          /\ baseline' = [baseline EXCEPT !.published = {}, !.tracking = {}, !.local = {}]
          /\ Crossed({q \in Maestros \ {p} : ByName(q)})
  BY <1>9 DEF Bases, Evident, y, z
<1> QED BY <1>5, <1>6, <1>7, <1>10, <1>11, <1>12

LEMMA BuildsBaselineStep == ASSUME RInv, NEW p \in Maestros, BuildsBaseline(p) PROVE RInv'
<1> DEFINE x == maestro[p]  y == [x EXCEPT !.at = "picking"]
<1>1. x.at = "building" /\ UNCHANGED <<world, tracking, lock, work>>
  BY DEF BuildsBaseline, Stands
<1>2. /\ x \in MaestroState /\ Holds(p) /\ x.base \in Heads
      /\ baseline \in Baseline /\ baseline.tracking = baseline.published
  BY RepositoryFacts DEF RInv, HistorySound, MaestroState
<1>3. /\ y \in MaestroState /\ y.at = "picking" /\ y.base = x.base /\ y.owed = x.owed
      /\ y.delivery = x.delivery /\ y.fetched = x.fetched
  BY <1>2 DEF MaestroState
<1>4. /\ baseline' \in Baseline /\ baseline'.tracking = baseline.tracking
      /\ baseline'.published = baseline.published
  BY <1>2 DEF BuildsBaseline, Baseline
<1>5. OnlyMaestro(p, Uninvolved) \/ OnlyMaestro(p, y)
  BY DEF BuildsBaseline
<1> HIDE DEF y
<1>6. UNCHANGED <<checkout, deliveries, died, repoEvents, lock>> /\ UNCHANGED <<crossed, work, tracking>>
  BY <1>1 DEF world
<1>7. work' \in Worktree /\ crossed' \in BOOLEAN /\ WorkSound'
  BY <1>6 DEF RInv, RepoTypeOK, WorkSound
<1>8. CASE OnlyMaestro(p, Uninvolved)
  BY <1>1, <1>2, <1>4, <1>6, <1>7, <1>8, UninvolvedHolds, BaseIsPrepared DEF Uninvolved
<1>9. CASE OnlyMaestro(p, y)
  <2>1. maestro'[p] = y
    BY <1>9, RepositoryFacts DEF OnlyMaestro
  <2>2. Holds(p)'
    BY <1>1, <1>2, <1>3, <1>6, <2>1 DEF Holds
  <2> QED BY <1>1, <1>2, <1>3, <1>4, <1>6, <1>7, <1>9, <2>2, BaseIsPrepared
<1> QED BY <1>5, <1>8, <1>9

\* What is published is the commit it was built on and the delivery.
LEMMA PublishesBaselineStep == ASSUME RInv, NEW p \in Maestros, PublishesBaseline(p) PROVE RInv'
<1> DEFINE x == maestro[p]  whole == x.base \cup {x.delivery}
           y == [x EXCEPT !.at = "adding", !.base = {}]
<1>1. x.at = "picking" /\ UNCHANGED <<world, tracking, lock, work>>
  BY DEF PublishesBaseline, Stands
<1>2. /\ x \in MaestroState /\ Holds(p) /\ x.base \in Heads /\ x.delivery \in Commits
      /\ baseline \in Baseline /\ baseline.tracking = baseline.published
  BY <1>1, RepositoryFacts DEF RInv, HistorySound, MaestroState, Holds
<1>3. whole \in Heads /\ {} \in Heads
  BY <1>2 DEF Heads
<1>4. /\ y \in MaestroState /\ y.at = "adding" /\ y.base = {} /\ y.owed = x.owed
      /\ y.delivery = x.delivery /\ y.fetched = x.fetched
  BY <1>2, <1>3 DEF MaestroState
<1>5. UNCHANGED <<checkout, deliveries, died, repoEvents, lock>> /\ UNCHANGED <<crossed, work, tracking>>
  BY <1>1 DEF world
<1>6. work' \in Worktree /\ crossed' \in BOOLEAN /\ WorkSound'
  BY <1>5 DEF RInv, RepoTypeOK, WorkSound
<1> HIDE DEF whole, y
<1>7. CASE /\ baseline.published = {} /\ OnlyMaestro(p, y)
           /\ baseline' = [baseline EXCEPT !.published = whole, !.tracking = whole,
                                           !.local = {}, !.built = FALSE]
  <2>1. /\ baseline' \in Baseline /\ baseline'.tracking = whole /\ baseline'.published = whole
    BY <1>2, <1>3, <1>7 DEF Baseline
  <2>2. maestro'[p] = y
    BY <1>7, RepositoryFacts DEF OnlyMaestro
  <2>3. Holds(p)'
    BY <1>1, <1>2, <1>4, <1>5, <2>1, <2>2 DEF Holds, Covers, Offered, whole
  <2> QED BY <1>1, <1>2, <1>4, <1>5, <1>6, <1>7, <2>1, <2>3, BaseIsPrepared
<1>8. CASE /\ OnlyMaestro(p, Uninvolved)
           /\ \/ baseline' = [baseline EXCEPT !.local = {}, !.built = FALSE]
              \/ baseline' = [baseline EXCEPT !.local = whole]
  <2>1. /\ baseline' \in Baseline /\ baseline'.tracking = baseline.tracking
        /\ baseline'.published = baseline.published
    BY <1>2, <1>3, <1>8 DEF Baseline
  <2> QED BY <1>1, <1>2, <1>5, <1>6, <1>8, <2>1, UninvolvedHolds, BaseIsPrepared DEF Uninvolved
<1> QED BY <1>7, <1>8 DEF PublishesBaseline, whole, y

LEMMA AddsWorktreeStep ==
  ASSUME RInv, NEW p \in Maestros, AddsWorktree(p) \/ Records(p) PROVE RInv'
<1> DEFINE x == maestro[p]  y == [x EXCEPT !.at = "recording"]  base == Offered(x)
<1>1. /\ x.at \in {"adding", "recording"} /\ UNCHANGED <<world, tracking, baseline, lock>>
  BY DEF AddsWorktree, Records, Stands
<1>2. /\ x \in MaestroState /\ Holds(p) /\ base \in Heads /\ x.owed \in Heads /\ x.delivery \in Nat
      /\ work \in Worktree /\ WorkSound
  BY RepositoryFacts DEF RInv, MaestroState, Offered, Baseline
<1>3. /\ y \in MaestroState /\ y.at = "recording" /\ y.owed = x.owed
      /\ y.delivery = x.delivery /\ y.fetched = x.fetched
  BY <1>2 DEF MaestroState
<1>4. /\ UNCHANGED <<checkout, deliveries, died, repoEvents, lock>> /\ UNCHANGED <<crossed, baseline, tracking>>
      /\ crossed' \in BOOLEAN /\ baseline' \in Baseline /\ baseline'.tracking = baseline'.published
  BY <1>1 DEF world, RInv, RepoTypeOK, HistorySound
<1> HIDE DEF y
<1>5. CASE OnlyMaestro(p, Uninvolved) /\ UNCHANGED work
  BY <1>1, <1>5, GivesUp
<1>6. CASE /\ x.at = "adding" /\ ~work.branch /\ OnlyMaestro(p, y)
           /\ work' = [work EXCEPT !.dir = TRUE, !.branch = TRUE, !.base = base,
                                   !.owed = x.owed, !.delivery = x.delivery]
  <2> HIDE DEF base
  <2>1. /\ work' \in Worktree /\ work'.branch /\ ~work'.row /\ work'.base = base
        /\ work'.owed = x.owed /\ work'.delivery = x.delivery
    BY <1>2, <1>6 DEF Worktree, WorkSound
  <2>2. WorkSound'
    BY <1>2, <1>4, <1>6, <2>1 DEF WorkSound, Covers, Holds, base
  <2>3. maestro'[p] = y
    BY <1>6, RepositoryFacts DEF OnlyMaestro
  <2>4. Holds(p)'
    BY <1>2, <1>3, <1>4, <2>1, <2>3 DEF Holds
  <2> QED BY <1>1, <1>3, <1>4, <1>6, <2>1, <2>2, <2>4, BaseIsPrepared
<1>7. CASE Records(p)
  <2>1. x.at = "recording" /\ work' = [work EXCEPT !.row = TRUE] /\ OnlyMaestro(p, Uninvolved)
    BY <1>7 DEF Records, Stands
  <2>2. /\ work' \in Worktree /\ work'.branch = work.branch /\ work'.base = work.base
        /\ work'.owed = work.owed /\ work'.delivery = work.delivery
    BY <1>2, <2>1 DEF Worktree
  <2>3. WorkSound' /\ work.branch
    BY <1>2, <1>4, <2>1, <2>2 DEF WorkSound, Covers, Holds
  <2> QED BY <1>1, <1>4, <2>1, <2>2, <2>3, UninvolvedHolds, BaseIsPrepared DEF Uninvolved
<1> QED BY <1>5, <1>6, <1>7 DEF AddsWorktree, Offered, y, Stands

-----------------------------------------------------------------------------
\* People, the remote and crashes.

LEMMA DiesStep == ASSUME RInv, NEW p \in Maestros, Dies(p) PROVE RInv'
<1>1. /\ OnlyMaestro(p, Uninvolved) /\ repoEvents < MaxRepoEvents /\ repoEvents' = repoEvents + 1
      /\ lock' = (IF lock.by = p THEN [lock EXCEPT !.by = Nobody] ELSE lock)
      /\ died' = (died \/ lock.by = p)
      /\ UNCHANGED <<checkout, deliveries, crossed, tracking, baseline, work>>
  BY DEF Dies, RepoEvent
<1>2. /\ maestro' \in [Maestros -> MaestroState] /\ maestro'[p] = Uninvolved
      /\ \A q \in Maestros \ {p} : maestro'[q] = maestro[q]
  BY <1>1, UninvolvedTyped, RepositoryFacts DEF OnlyMaestro
<1>3. lock' \in Lock
  BY <1>1, RepositoryFacts DEF Lock
<1>4. LockSound'
  <2>1. Uninvolved.at = "idle"
    BY DEF Uninvolved
  <2>2. CASE lock.by = p
    BY <1>1, <2>2 DEF LockSound
  <2>3. CASE lock.by # p
    BY <1>1, <1>2, <2>1, <2>3, RepositoryFacts DEF LockSound, Critical
  <2> QED BY <2>2, <2>3
<1>5. \A q \in Maestros \ {p} : Holds(q)'
  BY <1>1, <1>2, OthersHold DEF checkout
<1>6. died' \in BOOLEAN
  <2>1. died \in BOOLEAN
    BY DEF RInv, RepoTypeOK
  <2> QED BY <1>1, <2>1
<1>7. repoEvents' \in 0 .. MaxRepoEvents
  BY <1>1, RepoBounds DEF RInv, RepoTypeOK
<1>8. RepoTypeOK'
  BY <1>1, <1>2, <1>3, <1>6, <1>7 DEF RInv, RepoTypeOK, checkout
<1>9. WorkSound' /\ HistorySound'
  BY <1>1 DEF RInv, WorkSound, HistorySound, checkout
<1> QED BY <1>1, <1>4, <1>5, <1>8, <1>9, UninvolvedHolds DEF RInv

\* No process moves: histories grow, a branch is switched, a worktree is removed.
LEMMA OutsideStep ==
  ASSUME RInv, UNCHANGED <<maestro, lock, died, baseline, tracking>>, RepoTypeOK',
         work'.row = work.row, work'.branch = work.branch, work'.base = work.base,
         work'.owed = work.owed, work'.delivery = work.delivery,
         remote \subseteq remote', heads["default"] \subseteq heads'["default"],
         \A d \in deliveries' : d <= made',
         deliveries' # {} => \E d \in deliveries' : \A e \in deliveries' : e <= d,
         crossed => crossed',
         ~crossed' => \A q \in Maestros :
                        maestro[q].at \in {"looked", "fetched", "merging"} => branch' = branch
  PROVE  RInv'
<1>1. \A q \in Maestros : Holds(q)'
  <2> SUFFICES ASSUME NEW q \in Maestros PROVE Holds(q)'
    OBVIOUS
  <2> QED BY OthersHold
<1>2. LockSound'
  BY DEF RInv, LockSound
<1>3. WorkSound'
  BY DEF RInv, WorkSound, Covers
<1>4. HistorySound'
  BY DEF RInv, HistorySound
<1> QED BY <1>1, <1>2, <1>3, <1>4 DEF RInv

\* The deliveries of before, when more commits may be made.
LEMMA DeliveriesStay ==
  ASSUME RInv, UNCHANGED deliveries, made' \in {made, made + 1}
  PROVE  /\ made' \in Nat
         /\ \A d \in deliveries' : d <= made'
         /\ deliveries' # {} => \E d \in deliveries' : \A e \in deliveries' : e <= d
<1>1. made \in Nat /\ \A d \in deliveries : d \in Nat /\ d <= made
  BY RepoBounds DEF RInv, RepoTypeOK, HistorySound, Heads
<1>2. \A d \in deliveries : d <= made'
  BY <1>1
<1> QED BY <1>1, <1>2 DEF RInv, HistorySound

LEMMA EventCounted == RInv /\ RepoEvent => repoEvents' \in 0 .. MaxRepoEvents
  BY RepoBounds DEF RInv, RepoTypeOK, RepoEvent

LEMMA UserCommitsStep == RInv /\ UserCommits => RInv'
<1> SUFFICES ASSUME RInv, UserCommits PROVE RInv'
  OBVIOUS
<1>1. /\ RepoEvent /\ made + 1 \in Commits /\ made' = made + 1 /\ dirty' = FALSE
      /\ heads' = [heads EXCEPT ![branch] = heads[branch] \cup {made'}]
      /\ UNCHANGED <<place, branch, origin, remote, deliveries, died, crossed, tracking, baseline,
                     lock, maestro, work>>
  BY DEF UserCommits
<1>2. heads' \in [Branches -> Heads] /\ heads["default"] \subseteq heads'["default"]
  <2>1. /\ heads \in [Branches -> Heads] /\ branch \in Branches /\ "default" \in Branches
        /\ heads[branch] \cup {made'} \in Heads
    BY <1>1 DEF RInv, RepoTypeOK, Branches, Heads
  <2> QED BY <1>1, <2>1
<1>3. RepoTypeOK'
  <2>1. dirty' \in BOOLEAN
    BY <1>1
  <2> QED BY <1>1, <1>2, <2>1, DeliveriesStay, EventCounted DEF RInv, RepoTypeOK
<1> QED BY <1>1, <1>2, <1>3, DeliveriesStay, OutsideStep

LEMMA UserWorksStep == RInv /\ UserWorks => RInv'
<1> SUFFICES ASSUME RInv, UserWorks PROVE RInv'
  OBVIOUS
<1>1. /\ RepoEvent
      /\ UNCHANGED <<place, origin, remote, made, deliveries, died, tracking, baseline, lock,
                     maestro, work>>
  BY DEF UserWorks
<1>2. crossed \in BOOLEAN /\ dirty \in BOOLEAN
  BY DEF RInv, RepoTypeOK
<1>3. CASE dirty' = ~dirty /\ UNCHANGED <<branch, heads, crossed>>
  <2>1. dirty' \in BOOLEAN /\ crossed' \in BOOLEAN
    BY <1>2, <1>3
  <2>2. RepoTypeOK'
    BY <1>1, <1>3, <2>1, EventCounted DEF RInv, RepoTypeOK
  <2> QED BY <1>1, <1>3, <2>2, DeliveriesStay, OutsideStep
<1>4. ASSUME NEW b \in Branches, branch' = b, UNCHANGED dirty,
             heads' = [heads EXCEPT ![b] = IF heads[b] = {} THEN heads[branch] ELSE heads[b]],
             Crossed({p \in Maestros : maestro[p].at \in {"looked", "fetched", "merging"}})
      PROVE  RInv'
  <2>1. heads' \in [Branches -> Heads] /\ heads["default"] \subseteq heads'["default"]
    <3>1. heads \in [Branches -> Heads] /\ branch \in Branches /\ "default" \in Branches
      BY DEF RInv, RepoTypeOK, Branches
    <3> QED BY <1>4, <3>1
  <2>2. /\ crossed' \in BOOLEAN
        /\ crossed => crossed'
        /\ ~crossed' => \A q \in Maestros : maestro[q].at \notin {"looked", "fetched", "merging"}
    BY <1>2, <1>4 DEF Crossed
  <2>3. RepoTypeOK'
    BY <1>1, <1>4, <2>1, <2>2, EventCounted DEF RInv, RepoTypeOK
  <2> QED BY <1>1, <2>1, <2>2, <2>3, DeliveriesStay, OutsideStep
<1> QED BY <1>3, <1>4 DEF UserWorks

LEMMA RemoteGrowsStep == RInv /\ RemoteGrows => RInv'
<1> SUFFICES ASSUME RInv, RemoteGrows PROVE RInv'
  OBVIOUS
<1>1. /\ RepoEvent /\ made + 1 \in Commits /\ made' = made + 1 /\ remote' = remote \cup {made'}
      /\ UNCHANGED <<place, branch, heads, dirty, origin, deliveries, died, crossed, tracking,
                     baseline, lock, maestro, work>>
  BY DEF RemoteGrows
<1>2. remote' \in Heads
  BY <1>1 DEF RInv, RepoTypeOK, Heads
<1>3. RepoTypeOK'
  BY <1>1, <1>2, DeliveriesStay, EventCounted DEF RInv, RepoTypeOK
<1> QED BY <1>1, <1>3, DeliveriesStay, OutsideStep

\* The delivery that is made last is the latest.
LEMMA DependencyDeliversStep == RInv /\ DependencyDelivers => RInv'
<1> SUFFICES ASSUME RInv, DependencyDelivers PROVE RInv'
  OBVIOUS
<1>1. /\ RepoEvent /\ made + 1 \in Commits /\ made' = made + 1
      /\ deliveries' = deliveries \cup {made'}
      /\ UNCHANGED <<place, branch, heads, dirty, origin, remote, died, crossed, tracking, baseline,
                     lock, maestro, work>>
  BY DEF DependencyDelivers
<1>2. made \in Nat /\ \A d \in deliveries : d \in Nat /\ d <= made
  BY RepoBounds DEF RInv, RepoTypeOK, HistorySound, Heads
<1>3. made' \in Nat /\ deliveries' \in Heads /\ \A d \in deliveries' : d <= made'
  BY <1>1, <1>2 DEF RInv, RepoTypeOK, Heads
<1>4. RepoTypeOK'
  BY <1>1, <1>3, EventCounted DEF RInv, RepoTypeOK
<1> QED BY <1>1, <1>3, <1>4, OutsideStep

LEMMA RemovedStep == RInv /\ Removed => RInv'
<1> SUFFICES ASSUME RInv, Removed PROVE RInv'
  OBVIOUS
<1>1. /\ RepoEvent
      /\ UNCHANGED <<branch, heads, dirty, origin, remote, made, deliveries, died, crossed, tracking,
                     baseline, lock, maestro>>
      /\ \/ place' \in {"moved", "broken"} /\ UNCHANGED work
         \/ UNCHANGED place /\ work' = [work EXCEPT !.dir = FALSE]
  BY DEF Removed
<1>2. /\ work' \in Worktree /\ work'.row = work.row /\ work'.branch = work.branch
      /\ work'.base = work.base /\ work'.owed = work.owed /\ work'.delivery = work.delivery
  BY <1>1 DEF RInv, RepoTypeOK, Worktree
<1>3. place' \in {"there", "moved", "broken"}
  BY <1>1 DEF RInv, RepoTypeOK
<1>4. RepoTypeOK'
  BY <1>1, <1>2, <1>3, EventCounted DEF RInv, RepoTypeOK
<1> QED BY <1>1, <1>2, <1>4, DeliveriesStay, OutsideStep

-----------------------------------------------------------------------------

LEMMA RepoStep == RInv /\ [RepoNext]_repoVars => RInv'
<1> SUFFICES ASSUME RInv, [RepoNext]_repoVars PROVE RInv'
  OBVIOUS
<1>1. ASSUME NEW p \in Maestros,
             \/ PrepareStarts(p) \/ Bootstraps(p) \/ SyncStarts(p)
             \/ Acquires(p) \/ LockRefused(p) \/ JudgesOrphan(p) \/ Reclaims(p)
             \/ Looks(p) \/ Fetches(p) \/ Judges(p) \/ FastForwards(p) \/ LooksAgain(p)
      PROVE  RInv'
  BY <1>1, PrepareStep, BootstrapStep, AcquireStep, RefusedLockStep, LooksStep, FetchesStep,
     JudgesStep, FastForwardsStep, LooksAgainStep
<1>2. ASSUME NEW p \in Maestros,
             \/ Bases(p) \/ BuildsBaseline(p) \/ PublishesBaseline(p)
             \/ AddsWorktree(p) \/ Records(p) \/ Dies(p)
      PROVE  RInv'
  BY <1>2, BasesStep, BuildsBaselineStep, PublishesBaselineStep, AddsWorktreeStep, DiesStep
<1>3. CASE \/ LockAges \/ UserCommits \/ UserWorks \/ RemoteGrows \/ DependencyDelivers \/ Removed
  BY <1>3, AgeStep, UserCommitsStep, UserWorksStep, RemoteGrowsStep, DependencyDeliversStep,
     RemovedStep
<1>4. CASE UNCHANGED repoVars
  <2>1. \A q \in Maestros : Holds(q)'
    <3> SUFFICES ASSUME NEW q \in Maestros PROVE Holds(q)'
      OBVIOUS
    <3> QED BY <1>4, OthersHold DEF repoVars
  <2> QED BY <1>4, <2>1 DEF RInv, RepoTypeOK, LockSound, WorkSound, HistorySound, repoVars
<1> QED BY <1>1, <1>2, <1>3, <1>4 DEF RepoNext

LEMMA RepoInvariant == RepoSpec => []RInv
  BY RepoInitHolds, RepoStep, PTL DEF RepoSpec

\* The state of the repository, of its processes and of the Task stays of its types
\* (repository-service.ts, git.ts, prepareTask).
THEOREM RepoTypeCorrect == RepoSpec => []RepoTypeOK
<1>1. RInv => RepoTypeOK
  BY DEF RInv
<1> QED BY <1>1, RepoInvariant, PTL

\* Two processes never inspect and fast-forward the repository at once unless one
\* died with the lock, and the worktree of a Task starts from all it owes unless its
\* preparation was crossed: whatever the processes, people and the remote do, and
\* however many they are (acquireSyncLock, synchronizeUnlocked,
\* prepareFeatureTaskBaseline, createGitWorktree).
THEOREM WorktreeBaseIsSoundHolds == RepoSpec => []WorktreeBaseIsSound
<1>1. RInv => SyncIsExclusive
  BY DEF RInv, LockSound, SyncIsExclusive
<1>2. RInv => PreparedBaseIsWhole
  BY DEF RInv, WorkSound, Covers, PreparedBaseIsWhole
<1> QED BY <1>1, <1>2, RepoInvariant, PTL DEF WorktreeBaseIsSound

-----------------------------------------------------------------------------
(* Validation                                                              *)

Ours == {"venv", "pip", "pytest"}
Theirs == {"install", "verify"}
Preparing == {"job"} \cup Ours \cup Theirs

\* A marker notes an installation that succeeded.
MarkedIn(env) == \A d \in Dirs : env[d].marker # 0 => env[d].marker \in env[d].ever
Marked == MarkedIn(venv) /\ MarkedIn(modules)

\* An environment at work has its job.
JobAtWork ==
  /\ validation.at \in Ours \cup Theirs => validation.jobs # <<>>
  /\ validation.at \in Ours => Job[1] = "python"
  /\ validation.at \in Theirs => Job[1] = "node"

Gated == validation.at \notin {"idle", "diff"} /\ ~validation.failed => clean
OkUnlessFailed == ~validation.failed => validation.ok

\* An abort finds a process at work, and fails it.
AbortFails ==
  validation.aborted /\ ~validation.failed =>
    /\ validation.at \in Awaiting
    /\ validation.at = "check" => ~validation.plan[validation.ran + 1].skipped

\* Still to be prepared.
Awaits(job) == \E i \in DOMAIN validation.jobs : validation.jobs[i] = job

Prepares ==
  project.approved /\ ~validation.failed =>
    /\ validation.at \in Preparing \cup {"planning"} =>
         \A i \in DOMAIN Jobs : Trusted(Jobs[i]) \/ Awaits(Jobs[i])
    /\ validation.at = "planning" => validation.jobs = <<>>

\* Nothing runs before it is planned; and what is reported ran to its end.
Checks ==
  /\ validation.at \notin {"check", "reporting"} => validation.ran = 0
  /\ ~validation.failed =>
       /\ validation.at \in {"check", "reporting"} => \A job \in validation.prepared : Trusted(job)
       /\ validation.at = "reporting" =>
            validation.plan # <<>> /\ validation.ran = Len(validation.plan)

Achieved == Gated /\ OkUnlessFailed /\ AbortFails /\ Prepares /\ Checks

VInv == ValidationTypeOK /\ Marked /\ JobAtWork /\ Achieved /\ PassedReportIsWhole

-----------------------------------------------------------------------------
\* What discovery returns has the types the checks and the jobs need.

LEMMA ProjectTyped == ValidationTypeOK => project \in ProjectShape
  BY ValidationBounds DEF ValidationTypeOK

LEMMA PickedTyped ==
  ASSUME NEW S, NEW four, four[1] \in S, four[2] \in S, four[3] \in S, four[4] \in S, NEW set
  PROVE  Picked(four, set) \in Seq(S)
<1> DEFINE Pick(i) == IF four[i] \in set THEN <<four[i]>> ELSE <<>>
<1>1. Pick(1) \in Seq(S) /\ Pick(2) \in Seq(S) /\ Pick(3) \in Seq(S) /\ Pick(4) \in Seq(S)
  OBVIOUS
<1>2. Picked(four, set) = Pick(1) \o Pick(2) \o Pick(3) \o Pick(4)
  BY DEF Picked
<1> HIDE DEF Pick
<1> QED BY <1>1, <1>2

\* Tuples of typed elements are sequences of that type.
LEMMA OneTyped == ASSUME NEW S, NEW a \in S PROVE <<a>> \in Seq(S)
  OBVIOUS

LEMMA FourTyped ==
  ASSUME NEW S, NEW a \in S, NEW b \in S, NEW c \in S, NEW e \in S
  PROVE  <<a, b, c, e>> \in Seq(S)
  OBVIOUS

LEMMA InOrderTyped == ASSUME NEW set PROVE InOrder(set) \in Seq(Dirs)
  BY PickedTyped DEF InOrder, Dirs

LEMMA JobsTyped == Jobs \in Seq(EnvironmentJob)
<1> DEFINE py == InOrder(PythonDirs)
           node == InOrder(NodeDirs)
<1>1. py \in Seq(Dirs) /\ node \in Seq(Dirs)
  BY InOrderTyped
<1>2. Jobs = [i \in 1 .. Len(py) |-> <<"python", py[i]>>] \o [i \in 1 .. Len(node) |-> <<"node", node[i]>>]
  BY DEF Jobs
<1> HIDE DEF py, node
<1>3. /\ [i \in 1 .. Len(py) |-> <<"python", py[i]>>] \in Seq(EnvironmentJob)
      /\ [i \in 1 .. Len(node) |-> <<"node", node[i]>>] \in Seq(EnvironmentJob)
  BY <1>1 DEF EnvironmentJob
<1> QED BY <1>2, <1>3

LEMMA CheckTyped ==
  ASSUME NEW id \in CheckId, NEW d \in Dirs, NEW skipped \in BOOLEAN
  PROVE  Check(id, d, skipped) \in PlannedCheck
  BY DEF Check, PlannedCheck

LEMMA NotSkippedTyped ==
  ASSUME NEW id \in CheckId, NEW d \in Dirs PROVE Check(id, d, FALSE) \in PlannedCheck
<1>1. FALSE \in BOOLEAN
  OBVIOUS
<1> QED BY <1>1, CheckTyped

LEMMA PythonChecksTyped ==
  ASSUME NEW dirs PROVE PythonChecks(dirs) \in Seq(PlannedCheck)
<1> DEFINE order == InOrder(dirs)
           d(i) == order[(i + 1) \div 2]
           check(i) == IF i % 2 = 1 THEN Check("python_compile", d(i), FALSE)
                       ELSE Check("tests_python", d(i), d(i) \notin project.pyTests)
<1>1. order \in Seq(Dirs)
  BY InOrderTyped
<1>2. PythonChecks(dirs) = [i \in 1 .. 2 * Len(order) |-> check(i)]
  BY DEF PythonChecks
<1> HIDE DEF order
<1>3. ASSUME NEW i \in 1 .. 2 * Len(order) PROVE check(i) \in PlannedCheck
  <2>1. (i + 1) \div 2 \in 1 .. Len(order)
    BY <1>1
  <2>2. d(i) \in Dirs
    BY <1>1, <2>1
  <2>3. (d(i) \notin project.pyTests) \in BOOLEAN
    OBVIOUS
  <2>4. {"python_compile", "tests_python"} \subseteq CheckId
    BY DEF CheckId
  <2> HIDE DEF d
  <2> QED BY <2>2, <2>3, <2>4, CheckTyped
<1> HIDE DEF check
<1>4. 2 * Len(order) \in Nat
  BY <1>1
<1> QED BY <1>2, <1>3, <1>4

LEMMA PlanTyped == project \in ProjectShape => Plan \in Seq(PlannedCheck)
<1> SUFFICES ASSUME project \in ProjectShape PROVE Plan \in Seq(PlannedCheck)
  OBVIOUS
<1>1. /\ {"root", "back", "front"} \subseteq Dirs
      /\ {"typecheck_backend", "typecheck_ui", "tests_full", "build_ui", "typecheck", "lint",
          "test", "build", "project_tests"} \subseteq CheckId
  BY DEF Dirs, CheckId
<1>2. RootChecks \in Seq(PlannedCheck)
  <2>2. /\ "root" \in Dirs /\ "typecheck_backend" \in CheckId /\ "typecheck_ui" \in CheckId
        /\ "tests_full" \in CheckId /\ "build_ui" \in CheckId
    BY <1>1
  <2>1. /\ Check("typecheck_backend", "root", FALSE) \in PlannedCheck
        /\ Check("typecheck_ui", "root", FALSE) \in PlannedCheck
        /\ Check("tests_full", "root", FALSE) \in PlannedCheck
        /\ Check("build_ui", "root", FALSE) \in PlannedCheck
    BY <2>2, NotSkippedTyped
  <2> QED BY <2>1, FourTyped DEF RootChecks
<1>3. NestedChecks \in Seq(PlannedCheck)
  <2> DEFINE a == project.tsconfig \cap {"back", "root"} = {}
             b == "front" \notin project.tsconfig
             c == ~project.tests
             e == project.vite \cap {"front", "root"} = {}
             own == <<Check("typecheck_backend", "back", a), Check("typecheck_ui", "front", b),
                      Check("tests_full", "root", c), Check("build_ui", "front", e)>>
  <2>1. a \in BOOLEAN /\ b \in BOOLEAN /\ c \in BOOLEAN /\ e \in BOOLEAN
    BY DEF ProjectShape
  <2>2. NestedChecks = own \o PythonChecks(PythonDirs)
    BY DEF NestedChecks
  <2> HIDE DEF a, b, c, e
  <2>3. own \in Seq(PlannedCheck)
    BY <1>1, <2>1, CheckTyped
  <2> HIDE DEF own
  <2> QED BY <2>2, <2>3, PythonChecksTyped
<1>4. ASSUME Layout = "standalone-node" PROVE StandaloneChecks \in Seq(PlannedCheck)
  <2> DEFINE d == CHOOSE n \in Node : TRUE
             found == project.lock \notin {"npm", "none"} \/ project.npm
             order == Picked(<<"typecheck", "lint", "test", "build">>, project.scripts)
             own == IF order = <<>> THEN <<Check("project_tests", d, TRUE)>>
                    ELSE [i \in 1 .. Len(order) |-> Check(order[i], d, ~found)]
  <2>1. d \in Dirs
    <3>1. Node # {}
      <4>1. AppDirs = {} /\ Cardinality(Node) = 1 
        BY <1>4 DEF Layout
      <4> QED BY <4>1, FS_EmptySet
    <3> QED BY <3>1 DEF Node, ProjectShape
  <2>2. order \in Seq(CheckId)
    BY <1>1, PickedTyped
  <2>3. (~found) \in BOOLEAN
    BY DEF ProjectShape
  <2>4. StandaloneChecks = own \o PythonChecks(PythonDirs)
    BY DEF StandaloneChecks
  <2> HIDE DEF d, found, order
  <2>5. CASE order = <<>>
    <3>1. Check("project_tests", d, TRUE) \in PlannedCheck
      BY <1>1, <2>1 DEF Check, PlannedCheck
    <3>2. <<Check("project_tests", d, TRUE)>> \in Seq(PlannedCheck)
      BY <3>1, OneTyped
    <3>3. own \in Seq(PlannedCheck)
      BY <2>5, <3>2, Zenon
    <3> HIDE DEF own
    <3> QED BY <2>4, <3>3, PythonChecksTyped
  <2>6. CASE order # <<>>
    <3>1. ASSUME NEW i \in 1 .. Len(order) PROVE Check(order[i], d, ~found) \in PlannedCheck
      <4>1. order[i] \in CheckId
        BY <2>2
      <4> QED BY <2>1, <2>3, <4>1, CheckTyped
    <3>2. [i \in 1 .. Len(order) |-> Check(order[i], d, ~found)] \in Seq(PlannedCheck)
      BY <2>2, <3>1
    <3>3. own \in Seq(PlannedCheck)
      BY <2>6, <3>2
    <3> HIDE DEF own
    <3> QED BY <2>4, <3>3, PythonChecksTyped
  <2> QED BY <2>5, <2>6
<1>5. Layout \in {"nested-app", "standalone-node", "python", "root"}
  BY DEF Layout
<1> QED BY <1>2, <1>3, <1>4, <1>5, PythonChecksTyped DEF Plan

-----------------------------------------------------------------------------
\* The jobs depend on the project alone, and whether one is trusted on its
\* environment and the manifests.

LEMMA JobsKept == project' = project => Jobs' = Jobs
  BY DEF Jobs, InOrder, Picked, PythonDirs, NodeDirs, Node, AppDirs

LEMMA TrustKept ==
  ASSUME project' = project, revision' = revision, venv' = venv, modules' = modules, NEW job
  PROVE  Trusted(job)' = Trusted(job)
  BY DEF Trusted

\* What a sequence holds is its head and what its tail holds.
LEMMA HeadOrTail ==
  ASSUME NEW S, NEW s \in Seq(S), s # <<>>, NEW i \in DOMAIN s
  PROVE  /\ Tail(s) \in Seq(S) /\ Head(s) \in S
         /\ s[i] = Head(s) \/ \E k \in DOMAIN Tail(s) : Tail(s)[k] = s[i]
<1>1. Tail(s) \in Seq(S) /\ Head(s) \in S /\ Head(s) = s[1] /\ DOMAIN s = 1 .. Len(s)
  OBVIOUS
<1>2. CASE i = 1
  BY <1>1, <1>2
<1>3. CASE i # 1
  <2>1. i - 1 \in DOMAIN Tail(s) /\ Tail(s)[i - 1] = s[i]
    BY <1>3
  <2> QED BY <1>1, <2>1
<1> QED BY <1>2, <1>3

LEMMA JobTyped ==
  ASSUME validation \in ValidationState, validation.jobs # <<>>
  PROVE  Job \in EnvironmentJob /\ JobDir \in Dirs /\ Job = <<Job[1], JobDir>>
  BY DEF ValidationState, Job, JobDir, EnvironmentJob

-----------------------------------------------------------------------------
\* The ways a validation goes on.

Going == Awaiting \cup {"idle", "job", "planning", "reporting"}

LEMMA GoesFields ==
  ASSUME validation \in ValidationState, NEW at \in Going, Goes(at)
  PROVE  /\ validation' \in ValidationState /\ validation'.at = at
         /\ validation'.jobs = validation.jobs /\ validation'.ok = validation.ok
         /\ validation'.failed = validation.failed /\ validation'.aborted = validation.aborted
         /\ validation'.plan = validation.plan /\ validation'.ran = validation.ran
         /\ validation'.prepared = validation.prepared
  BY DEF ValidationState, Goes, Going

LEMMA InstallsFields ==
  ASSUME validation \in ValidationState, NEW at \in Going, Installs(at)
  PROVE  /\ validation' \in ValidationState /\ validation'.at = at
         /\ validation'.jobs = validation.jobs /\ validation'.ok = validation.ok
         /\ validation'.failed = validation.failed /\ validation'.aborted = validation.aborted
         /\ validation'.plan = validation.plan /\ validation'.ran = validation.ran
         /\ validation'.prepared = validation.prepared
<1> DEFINE f == Underway("venv")
<1>1. f \in BOOLEAN
  BY DEF Underway
<1>2. validation' = [validation EXCEPT !.at = at, !.fresh = f]
  BY DEF Installs
<1> HIDE DEF f
<1> QED BY <1>1, <1>2 DEF ValidationState, Going

LEMMA NextJobFields ==
  ASSUME validation \in ValidationState, validation.jobs # <<>>, NEW failed \in BOOLEAN,
         NextJob(failed)
  PROVE  /\ validation' \in ValidationState /\ validation'.at = "job"
         /\ validation'.jobs = Tail(validation.jobs) /\ validation'.ok = TRUE
         /\ validation'.failed = (validation.failed \/ failed)
         /\ validation'.aborted = validation.aborted
         /\ validation'.plan = validation.plan /\ validation'.ran = validation.ran
         /\ validation'.prepared = validation.prepared
<1> DEFINE f == validation.failed \/ failed
           t == Tail(validation.jobs)
<1>1. f \in BOOLEAN /\ t \in Seq(EnvironmentJob) /\ "job" \in Going
  BY DEF ValidationState, Going
<1>2. validation' = [validation EXCEPT !.at = "job", !.jobs = t, !.ok = TRUE, !.fresh = FALSE,
                                       !.failed = f]
  BY DEF NextJob
<1> HIDE DEF f, t
<1>3. /\ validation' \in ValidationState /\ validation'.at = "job"
      /\ validation'.jobs = t /\ validation'.ok = TRUE
      /\ validation'.failed = f /\ validation'.aborted = validation.aborted
      /\ validation'.plan = validation.plan /\ validation'.ran = validation.ran
      /\ validation'.prepared = validation.prepared
  BY <1>1, <1>2 DEF ValidationState, Going
<1> QED BY <1>3 DEF f, t

\* An installation harms no other environment.
OthersKept == \A job \in EnvironmentJob \ {Job} : Trusted(job) => Trusted(job)'

\* What this one needs is there.
ThisTrusted == \A job \in EnvironmentJob : job = Job => Trusted(job)'

ValidationTyped ==
  validation \in ValidationState /\ validation.ran <= Len(validation.plan)

\* On to the next process of the same job.
LEMMA Staying ==
  ASSUME VInv, UNCHANGED tree, validation' \in ValidationState, validation.at \in Preparing,
         validation.jobs # <<>>, validation'.jobs = validation.jobs,
         validation'.plan = validation.plan, validation'.ran = validation.ran,
         \/ validation'.at \in Ours /\ Job[1] = "python"
         \/ validation'.at \in Theirs /\ Job[1] = "node",
         validation.failed => validation'.failed, ~validation'.failed => validation'.ok,
         OthersKept
  PROVE  JobAtWork' /\ Achieved' /\ ValidationTyped'
<1> USE DEF Ours, Theirs, Preparing, Awaiting
<1>0. ValidationTyped'
  BY DEF ValidationTyped, VInv, ValidationTypeOK
<1>1. JobAtWork'
  BY DEF JobAtWork, Job
<1>2. Gated'
  BY DEF VInv, Achieved, Gated, tree
<1>3. OkUnlessFailed' /\ AbortFails'
  BY DEF OkUnlessFailed, AbortFails
<1>4. Prepares'
  <2> SUFFICES ASSUME project.approved, ~validation'.failed, NEW i \in DOMAIN Jobs
               PROVE  Trusted(Jobs[i])' \/ Awaits(Jobs[i])'
    BY JobsKept DEF Prepares, tree
  <2>1. Trusted(Jobs[i]) \/ Awaits(Jobs[i])
    BY DEF VInv, Achieved, Prepares
  <2>2. Awaits(Jobs[i]) => Awaits(Jobs[i])'
    BY JobsKept DEF Awaits, tree
  <2>3. Jobs[i] \in EnvironmentJob
    BY JobsTyped
  <2>4. Jobs[i] = Job => Awaits(Jobs[i])
    BY DEF Awaits, Job, VInv, ValidationTypeOK, ValidationState
  <2> QED BY <2>1, <2>2, <2>3, <2>4, JobsKept DEF OthersKept, tree
<1>5. Checks'
  BY DEF Checks, VInv, Achieved
<1> QED BY <1>0, <1>1, <1>2, <1>3, <1>4, <1>5 DEF Achieved

\* On to the next job, when this one is done or the validation has failed.
LEMMA JobDone ==
  ASSUME VInv, UNCHANGED tree, validation.at \in Preparing, validation.jobs # <<>>,
         NEW failed \in BOOLEAN, NextJob(failed),
         validation.aborted => failed \/ validation.failed,
         ~failed /\ ~validation.failed => OthersKept /\ ThisTrusted
  PROVE  JobAtWork' /\ Achieved' /\ ValidationTyped'
<1> USE DEF Ours, Theirs, Preparing, Awaiting
<1>0. validation \in ValidationState
  BY DEF VInv, ValidationTypeOK
<1>6. /\ validation' \in ValidationState /\ validation'.at = "job"
      /\ validation'.jobs = Tail(validation.jobs) /\ validation'.ok = TRUE
      /\ validation'.failed = (validation.failed \/ failed)
      /\ validation'.aborted = validation.aborted /\ validation'.ran = validation.ran
      /\ ValidationTyped'
  BY <1>0, NextJobFields DEF ValidationTyped, VInv, ValidationTypeOK
<1>1. JobAtWork'
  BY <1>6 DEF JobAtWork
<1>2. Gated'
  BY <1>6 DEF VInv, Achieved, Gated, tree
<1>3. OkUnlessFailed' /\ AbortFails'
  BY <1>6 DEF OkUnlessFailed, AbortFails
<1>4. Prepares'
  <2> SUFFICES ASSUME project.approved, ~validation'.failed, NEW i \in DOMAIN Jobs
               PROVE  Trusted(Jobs[i])' \/ Awaits(Jobs[i])'
    BY <1>6, JobsKept DEF Prepares, tree
  <2>1. Trusted(Jobs[i]) \/ Awaits(Jobs[i])
    BY <1>6 DEF VInv, Achieved, Prepares
  <2>2. Jobs[i] \in EnvironmentJob
    BY JobsTyped
  <2>3. Awaits(Jobs[i]) => Jobs[i] = Job \/ Awaits(Jobs[i])'
    <3> SUFFICES ASSUME NEW k \in DOMAIN validation.jobs, validation.jobs[k] = Jobs[i]
                 PROVE  Jobs[i] = Job \/ Awaits(Jobs[i])'
      BY DEF Awaits
    <3>1. validation.jobs \in Seq(EnvironmentJob)
      BY <1>0 DEF ValidationState
    <3>2. \/ validation.jobs[k] = Head(validation.jobs)
          \/ \E m \in DOMAIN Tail(validation.jobs) : Tail(validation.jobs)[m] = validation.jobs[k]
      BY <3>1, HeadOrTail
    <3>3. Jobs' = Jobs
      BY JobsKept DEF tree
    <3>4. CASE validation.jobs[k] = Head(validation.jobs)
      BY <3>4 DEF Job
    <3>5. ASSUME NEW m \in DOMAIN Tail(validation.jobs),
                 Tail(validation.jobs)[m] = validation.jobs[k]
          PROVE  Awaits(Jobs[i])'
      <4>1. m \in DOMAIN validation'.jobs /\ validation'.jobs[m] = Jobs'[i]
        BY <1>6, <3>3, <3>5
      <4> QED BY <4>1 DEF Awaits
    <3> QED BY <3>2, <3>4, <3>5
  <2>4. ~failed /\ OthersKept /\ ThisTrusted
    BY <1>6
  <2>5. Jobs'[i] = Jobs[i]
    BY JobsKept DEF tree
  <2>6. CASE Awaits(Jobs[i])'
    BY <2>6
  <2>7. CASE Jobs[i] # Job
    BY <2>1, <2>2, <2>3, <2>4, <2>5, <2>7 DEF OthersKept
  <2>8. CASE Jobs[i] = Job
    BY <2>2, <2>4, <2>5, <2>8 DEF ThisTrusted
  <2> QED BY <2>5, <2>6, <2>7, <2>8
<1>5. Checks'
  BY <1>6 DEF Checks, VInv, Achieved
<1> QED BY <1>6, <1>1, <1>2, <1>3, <1>4, <1>5 DEF Achieved

-----------------------------------------------------------------------------
\* The environments.

\* An installation marks its environment only if it succeeded, and forgets nothing.
LEMMA InstalledAllSound ==
  ASSUME NEW env \in [Dirs -> Environment], MarkedIn(env), NEW d \in Dirs, NEW ok \in BOOLEAN,
         revision \in Revisions
  PROVE  LET after == InstalledAll(env, d, ok) IN
         /\ after \in [Dirs -> Environment] /\ MarkedIn(after)
         /\ \A e \in Dirs : env[e].ever \subseteq after[e].ever
         /\ ok => revision \in after[d].ever
<1> DEFINE after == InstalledAll(env, d, ok)
           marker == IF Marks(ok) THEN revision ELSE env[d].marker
           ever == IF ok THEN env[d].ever \cup {revision} ELSE env[d].ever
           this == [env[d] EXCEPT !.marker = marker, !.ever = ever]
<1>1. marker \in {0} \cup Revisions /\ ever \in SUBSET Revisions /\ env[d].ever \subseteq ever
  BY DEF Environment
<1>2. marker # 0 => marker \in ever
  BY DEF Marks, MarkedIn
<1>3. ok => revision \in ever
  OBVIOUS
<1>4. after = [env EXCEPT ![d].marker = marker, ![d].ever = ever]
  BY DEF InstalledAll
<1> HIDE DEF after, marker, ever
<1>5. this \in Environment /\ this.marker = marker /\ this.ever = ever
  BY <1>1 DEF Environment
<1>6. after = [env EXCEPT ![d] = this]
  BY <1>4
<1> HIDE DEF this
<1>7. after \in [Dirs -> Environment] /\ after[d] = this /\ \A e \in Dirs \ {d} : after[e] = env[e]
  BY <1>5, <1>6
<1>8. MarkedIn(after)
  BY <1>2, <1>5, <1>7 DEF MarkedIn
<1>9. \A e \in Dirs : env[e].ever \subseteq after[e].ever
  BY <1>1, <1>5, <1>7
<1> QED BY <1>3, <1>5, <1>7, <1>8, <1>9 DEF after

\* Environments that lose nothing keep the trust in all of them.
LEMMA MoreIsTrusted ==
  ASSUME UNCHANGED tree, \A d \in Dirs : venv[d].ever \subseteq venv'[d].ever,
         \A d \in Dirs : modules[d].ever \subseteq modules'[d].ever
  PROVE  OthersKept
<1> SUFFICES ASSUME NEW job \in EnvironmentJob, Trusted(job) PROVE Trusted(job)'
  BY DEF OthersKept
<1>1. job[2] \in Dirs
  BY DEF EnvironmentJob
<1> QED BY <1>1 DEF Trusted, tree

LEMMA SameIsTrusted == UNCHANGED <<tree, venv, modules>> => OthersKept
  BY MoreIsTrusted

\* What the next process of a Python environment is.
LEMMA PythonInstallSound ==
  ASSUME VInv, UNCHANGED tree, validation.at \in {"job"} \cup Ours, validation.jobs # <<>>,
         Job[1] = "python", ~validation.aborted, PythonInstall(JobDir), OthersKept
  PROVE  JobAtWork' /\ Achieved' /\ ValidationTyped'
<1>0. validation \in ValidationState /\ validation.at \in Preparing
  BY DEF VInv, ValidationTypeOK, Preparing
<1>1. ASSUME NEW at \in {"pip", "pytest"}, Installs(at)
      PROVE  JobAtWork' /\ Achieved' /\ ValidationTyped'
  <2>1. at \in Going /\ at \in Ours
    BY DEF Going, Ours, Awaiting
  <2>2. /\ validation' \in ValidationState /\ validation'.at = at
        /\ validation'.jobs = validation.jobs /\ validation'.ok = validation.ok
        /\ validation'.failed = validation.failed
        /\ validation'.plan = validation.plan /\ validation'.ran = validation.ran
    BY <1>0, <1>1, <2>1, InstallsFields
  <2>3. ~validation'.failed => validation'.ok
    BY <2>2 DEF VInv, Achieved, OkUnlessFailed
  <2> QED BY <1>0, <2>1, <2>2, <2>3, Staying
<1>2. ASSUME JobDir \notin project.python, NextJob(FALSE)
      PROVE  JobAtWork' /\ Achieved' /\ ValidationTyped'
  <2>1. ThisTrusted
    BY <1>2 DEF ThisTrusted, Trusted, Job, JobDir, tree
  <2> QED BY <1>0, <1>2, <2>1, JobDone
<1> QED BY <1>1, <1>2 DEF PythonInstall

-----------------------------------------------------------------------------
\* The steps of the preparation.

LEMMA Assembled ==
  ASSUME VInv, UNCHANGED <<tree, report, workEdits>>, excluded' \in BOOLEAN,
         venv' \in [Dirs -> Environment], modules' \in [Dirs -> Environment],
         MarkedIn(venv)', MarkedIn(modules)', JobAtWork', Achieved', ValidationTyped'
  PROVE  VInv'
  BY DEF VInv, ValidationTypeOK, ValidationTyped, Marked, PassedReportIsWhole, tree

\* What every step of the preparation starts from.
LEMMA Facts ==
  VInv => /\ validation \in ValidationState /\ revision \in Revisions /\ revision # 0
          /\ venv \in [Dirs -> Environment] /\ modules \in [Dirs -> Environment]
          /\ MarkedIn(venv) /\ MarkedIn(modules) /\ excluded \in BOOLEAN
          /\ (validation.failed \in BOOLEAN /\ validation.aborted \in BOOLEAN)
          /\ validation.ok \in BOOLEAN /\ (~validation.failed => validation.ok)
          /\ validation.ran <= Len(validation.plan)
  BY DEF VInv, ValidationTypeOK, Marked, Revisions, ValidationState, Achieved, OkUnlessFailed

\* A process of an environment is at work.
LEMMA AtWork ==
  ASSUME VInv, validation.at \in Ours \cup Theirs
  PROVE  /\ validation.at \in Preparing /\ validation.jobs # <<>> /\ JobDir \in Dirs
         /\ validation.at \in Ours => Job[1] = "python"
         /\ validation.at \in Theirs => Job[1] = "node"
  BY Facts, JobTyped DEF VInv, JobAtWork, Preparing

LEMMA StartsPythonStep == VInv /\ StartsPython => VInv'
<1> SUFFICES ASSUME VInv, StartsPython PROVE VInv'
  OBVIOUS
<1>1. /\ validation.at = "job" /\ validation.jobs # <<>> /\ ~validation.aborted
      /\ Job[1] = "python" /\ UNCHANGED <<tree, excluded, venv, modules, report, workEdits>>
  BY DEF StartsPython, Underway
<1>2. validation.at \in Preparing /\ OthersKept /\ JobDir \in Dirs
  BY <1>1, SameIsTrusted, JobTyped, Facts DEF Preparing
<1>3. ASSUME NEW failed \in BOOLEAN, NextJob(failed), ~failed => ThisTrusted
      PROVE  JobAtWork' /\ Achieved' /\ ValidationTyped'
  BY <1>1, <1>2, <1>3, JobDone
<1>4. TRUE \in BOOLEAN /\ FALSE \in BOOLEAN
  OBVIOUS
<1>5. JobAtWork' /\ Achieved' /\ ValidationTyped'
  <2>1. CASE NextJob(TRUE)
    BY <1>3, <1>4, <2>1
  <2>2. CASE Goes("venv")
    <3>1. "venv" \in Going /\ "venv" \in Ours
      BY DEF Going, Awaiting, Ours
    <3> QED BY <1>1, <1>2, <2>2, <3>1, GoesFields, Facts, Staying
  <2>3. CASE venv[JobDir].marker = revision /\ NextJob(FALSE)
    <3>1. ThisTrusted
      BY <1>1, <1>2, <2>3, Facts DEF ThisTrusted, Trusted, MarkedIn, Job, JobDir, tree
    <3> QED BY <1>3, <1>4, <2>3, <3>1
  <2>4. CASE PythonInstall(JobDir)
    BY <1>1, <1>2, <2>4, PythonInstallSound
  <2> QED BY <2>1, <2>2, <2>3, <2>4 DEF StartsPython
<1> QED BY <1>1, <1>5, Assembled, Facts DEF MarkedIn

LEMMA VenvStep == VInv /\ VenvEnds => VInv'
<1> SUFFICES ASSUME VInv, NEW exits \in BOOLEAN, NEW left \in BOOLEAN,
                    Underway("venv"),
                    UNCHANGED <<tree, excluded, modules, report, workEdits>>,
                    IF Passes(exits)
                    THEN /\ venv' = [venv EXCEPT ![JobDir] = [NoEnvironment EXCEPT !.made = TRUE]]
                         /\ PythonInstall(JobDir)
                    ELSE /\ venv' = [venv EXCEPT ![JobDir] = [NoEnvironment EXCEPT !.made = left]]
                         /\ NextJob(TRUE)
             PROVE  VInv'
  BY DEF VenvEnds
<1>1. validation.at \in Ours
  BY DEF Underway, Ours
<1>2. /\ validation.at \in Preparing /\ validation.jobs # <<>> /\ JobDir \in Dirs
      /\ Job[1] = "python"
  BY <1>1, AtWork
<1>3. PICK stays \in BOOLEAN : venv' = [venv EXCEPT ![JobDir] = [NoEnvironment EXCEPT !.made = stays]]
  OBVIOUS
<1>4. venv' \in [Dirs -> Environment] /\ MarkedIn(venv)'
  <2>1. [NoEnvironment EXCEPT !.made = stays] \in Environment
    BY <1>3 DEF NoEnvironment, Environment, Revisions
  <2>2. [NoEnvironment EXCEPT !.made = stays].marker = 0
    BY DEF NoEnvironment
  <2> QED BY <1>2, <1>3, <2>1, <2>2, Facts DEF MarkedIn
<1>5. OthersKept
  <2> SUFFICES ASSUME NEW job \in EnvironmentJob, job # Job, Trusted(job) PROVE Trusted(job)'
    BY DEF OthersKept
  <2>1. job = <<job[1], job[2]>> /\ Job = <<Job[1], JobDir>> /\ job[2] \in Dirs
    BY <1>2, JobTyped, Facts DEF EnvironmentJob
  <2>2. CASE job[1] = "python"
    <3>1. job[2] # JobDir
      BY <1>2, <2>1, <2>2
    <3> QED BY <1>3, <2>1, <2>2, <3>1, Facts DEF Trusted, tree
  <2>3. CASE job[1] # "python"
    BY <2>3 DEF Trusted, tree
  <2> QED BY <2>2, <2>3
<1>6. JobAtWork' /\ Achieved' /\ ValidationTyped'
  <2>1. CASE Passes(exits)
    BY <1>1, <1>2, <1>5, <2>1, PythonInstallSound DEF Passes
  <2>2. CASE ~Passes(exits)
    <3>1. NextJob(TRUE) /\ TRUE \in BOOLEAN
      BY <2>2
    <3> QED BY <1>2, <3>1, JobDone
  <2> QED BY <2>1, <2>2
<1> QED BY <1>4, <1>6, Assembled, Facts DEF MarkedIn

\* An installation into a Python environment, whatever comes of it.
LEMMA VenvInstalled ==
  ASSUME VInv, NEW ok \in BOOLEAN, JobDir \in Dirs, Job[1] = "python",
         UNCHANGED <<tree, modules>>, venv' = InstalledAll(venv, JobDir, ok)
  PROVE  /\ venv' \in [Dirs -> Environment] /\ MarkedIn(venv)' /\ OthersKept
         /\ ok => ThisTrusted
<1>1. /\ venv' \in [Dirs -> Environment] /\ MarkedIn(venv')
      /\ \A e \in Dirs : venv[e].ever \subseteq venv'[e].ever
      /\ ok => revision \in venv'[JobDir].ever
  BY InstalledAllSound, Facts
<1>2. OthersKept
  BY <1>1, MoreIsTrusted
<1>3. ok => ThisTrusted
  BY <1>1 DEF ThisTrusted, Trusted, Job, JobDir, tree
<1> QED BY <1>1, <1>2, <1>3 DEF MarkedIn

LEMMA PipStep == VInv /\ PipEnds => VInv'
<1> SUFFICES ASSUME VInv, NEW exits \in BOOLEAN, Underway("pip"),
                    IF JobDir \in project.pyTests
                    THEN /\ validation' = [validation EXCEPT !.at = "pytest", !.ok = Passes(exits),
                                           !.failed = @ \/ ~Passes(exits)]
                         /\ UNCHANGED venv
                    ELSE /\ venv' = InstalledAll(venv, JobDir, Passes(exits))
                         /\ NextJob(~Passes(exits)),
                    UNCHANGED <<tree, excluded, modules, report, workEdits>>
             PROVE  VInv'
  BY DEF PipEnds
<1> DEFINE ok == Passes(exits)
           failed == validation.failed \/ ~ok
<1>1. validation.at \in Ours
  BY DEF Underway, Ours
<1>2. /\ validation.at \in Preparing /\ validation.jobs # <<>> /\ JobDir \in Dirs
      /\ Job[1] = "python"
  BY <1>1, AtWork
<1>3. ok \in BOOLEAN /\ (~ok) \in BOOLEAN /\ failed \in BOOLEAN /\ (ok => ~validation.aborted)
  BY DEF Passes
<1>4. CASE JobDir \in project.pyTests
  <2>1. validation' = [validation EXCEPT !.at = "pytest", !.ok = ok, !.failed = failed]
    BY <1>4
  <2>2. UNCHANGED venv
    BY <1>4
  <2>3. "pytest" \in Ours /\ "pytest" \in Going /\ (~failed => ok) /\ (validation.failed => failed)
    BY DEF Ours, Going, Awaiting
  <2> HIDE DEF ok, failed
  <2>4. /\ validation' \in ValidationState /\ validation'.at = "pytest"
        /\ validation'.jobs = validation.jobs /\ validation'.ok = ok /\ validation'.failed = failed
        /\ validation'.plan = validation.plan /\ validation'.ran = validation.ran
    BY <1>3, <2>1, <2>3, Facts DEF ValidationState, Going
  <2>5. JobAtWork' /\ Achieved' /\ ValidationTyped'
    BY <1>2, <2>2, <2>3, <2>4, SameIsTrusted, Staying
  <2> QED BY <2>2, <2>5, Assembled, Facts DEF MarkedIn
<1>5. CASE JobDir \notin project.pyTests
  <2>1. venv' = InstalledAll(venv, JobDir, ok) /\ NextJob(~ok)
    BY <1>5
  <2>2. /\ venv' \in [Dirs -> Environment] /\ MarkedIn(venv)' /\ OthersKept
        /\ ok => ThisTrusted
    BY <1>2, <1>3, <2>1, VenvInstalled
  <2> HIDE DEF ok
  <2>3. JobAtWork' /\ Achieved' /\ ValidationTyped'
    BY <1>2, <1>3, <2>1, <2>2, JobDone
  <2> QED BY <2>2, <2>3, Assembled, Facts DEF MarkedIn
<1> QED BY <1>4, <1>5

LEMMA PytestStep == VInv /\ PytestEnds => VInv'
<1> SUFFICES ASSUME VInv, NEW exits \in BOOLEAN, Underway("pytest"),
                    venv' = InstalledAll(venv, JobDir, validation.ok /\ Passes(exits)),
                    NextJob(~Passes(exits)),
                    UNCHANGED <<tree, excluded, modules, report, workEdits>>
             PROVE  VInv'
  BY DEF PytestEnds
<1> DEFINE ok == Passes(exits)
           both == validation.ok /\ ok
<1>1. validation.at \in Ours
  BY DEF Underway, Ours
<1>2. /\ validation.at \in Preparing /\ validation.jobs # <<>> /\ JobDir \in Dirs
      /\ Job[1] = "python"
  BY <1>1, AtWork
<1>3. ok \in BOOLEAN /\ (~ok) \in BOOLEAN /\ both \in BOOLEAN /\ (ok => ~validation.aborted)
  BY Facts DEF Passes
<1>4. venv' = InstalledAll(venv, JobDir, both) /\ NextJob(~ok)
  OBVIOUS
<1>5. ok /\ ~validation.failed => both
  BY Facts
<1> HIDE DEF ok, both
<1>6. /\ venv' \in [Dirs -> Environment] /\ MarkedIn(venv)' /\ OthersKept
      /\ both => ThisTrusted
  BY <1>2, <1>3, <1>4, VenvInstalled
<1>7. CASE validation.failed \/ ~ok \/ both
  <2>1. JobAtWork' /\ Achieved' /\ ValidationTyped'
    BY <1>2, <1>3, <1>4, <1>5, <1>6, <1>7, JobDone
  <2> QED BY <1>6, <2>1, Assembled, Facts DEF MarkedIn
<1> QED BY <1>5, <1>7, <1>3

LEMMA StartsNodeStep == VInv /\ StartsNode => VInv'
<1> SUFFICES ASSUME VInv, StartsNode PROVE VInv'
  OBVIOUS
<1>1. /\ validation.at = "job" /\ validation.jobs # <<>> /\ ~validation.aborted
      /\ Job[1] = "node" /\ UNCHANGED <<tree, excluded, venv, modules, report, workEdits>>
  BY DEF StartsNode, Underway
<1>2. validation.at \in Preparing /\ OthersKept /\ JobDir \in Dirs
  BY <1>1, SameIsTrusted, JobTyped, Facts DEF Preparing
<1>3. ASSUME NEW failed \in BOOLEAN, NextJob(failed), ~failed => ThisTrusted
      PROVE  JobAtWork' /\ Achieved' /\ ValidationTyped'
  BY <1>1, <1>2, <1>3, JobDone
<1>4. TRUE \in BOOLEAN /\ FALSE \in BOOLEAN
  OBVIOUS
<1>5. JobAtWork' /\ Achieved' /\ ValidationTyped'
  <2>1. CASE NextJob(TRUE)
    BY <1>3, <1>4, <2>1
  <2>2. CASE Goes("install")
    <3>1. "install" \in Going /\ "install" \in Theirs
      BY DEF Going, Awaiting, Theirs
    <3> QED BY <1>1, <1>2, <2>2, <3>1, GoesFields, Facts, Staying
  <2>3. CASE NextJob(FALSE) /\ (JobDir \notin project.declares \/ modules[JobDir].marker = revision)
    <3>1. ThisTrusted
      BY <1>1, <1>2, <2>3, Facts DEF ThisTrusted, Trusted, MarkedIn, Job, JobDir, tree
    <3> QED BY <1>3, <1>4, <2>3, <3>1
  <2> QED BY <2>1, <2>2, <2>3 DEF StartsNode
<1> QED BY <1>1, <1>5, Assembled, Facts DEF MarkedIn

\* The packages of one environment are settled, over what an installation left.
LEMMA NodeSettled ==
  ASSUME VInv, validation.at \in Theirs, NEW env \in [Dirs -> Environment], MarkedIn(env),
         \A d \in Dirs : modules[d].ever \subseteq env[d].ever,
         NEW ok \in BOOLEAN, ok => ~validation.aborted, NodeSettles(env, JobDir, ok),
         UNCHANGED <<tree, excluded, venv, report, workEdits>>
  PROVE  VInv'
<1>1. /\ validation.at \in Preparing /\ validation.jobs # <<>> /\ JobDir \in Dirs
      /\ Job[1] = "node"
  BY AtWork
<1>2. PICK done \in BOOLEAN : modules' = InstalledAll(env, JobDir, done) /\ NextJob(~done)
                              /\ (done => ~validation.aborted)
  <2>1. CASE ok /\ Artifacts(env, JobDir)
    <3>1. modules' = InstalledAll(env, JobDir, TRUE) /\ NextJob(FALSE) /\ TRUE \in BOOLEAN
      BY <2>1 DEF NodeSettles
    <3>2. (~TRUE) = FALSE
      OBVIOUS
    <3> QED BY <2>1, <3>1, <3>2
  <2>2. CASE ~(ok /\ Artifacts(env, JobDir))
    <3>1. modules' = InstalledAll(env, JobDir, FALSE) /\ NextJob(TRUE) /\ FALSE \in BOOLEAN
      BY <2>2 DEF NodeSettles
    <3>2. (~FALSE) = TRUE
      OBVIOUS
    <3> QED BY <3>1, <3>2
  <2> QED BY <2>1, <2>2
<1>3. /\ modules' \in [Dirs -> Environment] /\ MarkedIn(modules')
      /\ \A e \in Dirs : env[e].ever \subseteq modules'[e].ever
      /\ done => revision \in modules'[JobDir].ever
  BY <1>1, <1>2, InstalledAllSound, Facts
<1>4. OthersKept
  BY <1>3, MoreIsTrusted
<1>5. done => ThisTrusted
  BY <1>1, <1>3 DEF ThisTrusted, Trusted, Job, JobDir, tree
<1>6. (~done) \in BOOLEAN
  OBVIOUS
<1>7. JobAtWork' /\ Achieved' /\ ValidationTyped'
  BY <1>1, <1>2, <1>4, <1>5, <1>6, JobDone
<1> QED BY <1>3, <1>7, Assembled, Facts DEF MarkedIn

LEMMA InstallStep == VInv /\ InstallEnds => VInv'
<1> SUFFICES ASSUME VInv, Underway("install"), NEW exits \in BOOLEAN,
                    NEW left \in SUBSET InstalledBy(JobDir),
                    LET env == [d \in Dirs |-> IF d \in InstalledBy(JobDir)
                                  THEN [modules[d] EXCEPT !.made = d \in left] ELSE modules[d]]
                    IN IF Manager = "npm" /\ Passes(exits)
                       THEN modules' = env /\ Goes("verify")
                       ELSE NodeSettles(env, JobDir, Passes(exits)),
                    UNCHANGED <<tree, excluded, venv, report, workEdits>>
             PROVE  VInv'
  BY DEF InstallEnds
<1> DEFINE here(d) == d \in left
           after(d) == [modules[d] EXCEPT !.made = here(d)]
           env == [d \in Dirs |-> IF d \in InstalledBy(JobDir) THEN after(d) ELSE modules[d]]
           ok == Passes(exits)
<1>1. validation.at \in Theirs
  BY DEF Underway, Theirs
<1>2. \A d \in Dirs : here(d) \in BOOLEAN
  OBVIOUS
<1>3. IF Manager = "npm" /\ ok THEN modules' = env /\ Goes("verify")
      ELSE NodeSettles(env, JobDir, ok)
  OBVIOUS
<1>4. ok \in BOOLEAN /\ (ok => ~validation.aborted)
  BY DEF Passes
<1> HIDE DEF here, ok
<1>5. \A d \in Dirs : /\ after(d) \in Environment
                      /\ after(d).marker = modules[d].marker /\ after(d).ever = modules[d].ever
  BY <1>2, Facts DEF Environment
<1> HIDE DEF after
<1>6. /\ env \in [Dirs -> Environment]
      /\ \A d \in Dirs : env[d].marker = modules[d].marker /\ env[d].ever = modules[d].ever
  BY <1>5, Facts
<1> HIDE DEF env
<1>7. MarkedIn(env) /\ \A d \in Dirs : modules[d].ever \subseteq env[d].ever
  BY <1>6, Facts DEF MarkedIn
<1>8. CASE modules' = env /\ Goes("verify")
  <2>1. "verify" \in Going /\ "verify" \in Theirs
    BY DEF Going, Awaiting, Theirs
  <2>2. OthersKept
    BY <1>7, <1>8, MoreIsTrusted
  <2>3. JobAtWork' /\ Achieved' /\ ValidationTyped'
    BY <1>1, <1>8, <2>1, <2>2, AtWork, GoesFields, Facts, Staying
  <2> QED BY <1>6, <1>7, <1>8, <2>3, Assembled, Facts DEF MarkedIn
<1>9. CASE NodeSettles(env, JobDir, ok)
  BY <1>1, <1>4, <1>6, <1>7, <1>9, NodeSettled
<1> QED BY <1>3, <1>8, <1>9

LEMMA VerifyStep == VInv /\ VerifyEnds => VInv'
<1> SUFFICES ASSUME VInv, NEW complete \in BOOLEAN, Underway("verify"),
                    NodeSettles(modules, JobDir, Passes(complete)),
                    UNCHANGED <<tree, excluded, venv, report, workEdits>>
             PROVE  VInv'
  BY DEF VerifyEnds
<1>1. validation.at \in Theirs
  BY DEF Underway, Theirs
<1>2. Passes(complete) \in BOOLEAN /\ (Passes(complete) => ~validation.aborted)
  BY DEF Passes
<1>3. \A d \in Dirs : modules[d].ever \subseteq modules[d].ever
  OBVIOUS
<1> QED BY <1>1, <1>2, <1>3, Facts, NodeSettled

-----------------------------------------------------------------------------
\* The gates, the checks and the report.

\* A validation at rest has achieved nothing, and owes nothing.
LEMMA RestingSound ==
  ASSUME validation' = Resting
  PROVE  JobAtWork' /\ Achieved' /\ ValidationTyped'
<1>1. ValidationTyped'
  BY DEF Resting, ValidationTyped, ValidationState
<1>2. JobAtWork' /\ Gated' /\ OkUnlessFailed' /\ AbortFails' /\ Prepares' /\ Checks'
  BY DEF Resting, JobAtWork, Gated, OkUnlessFailed, AbortFails, Prepares, Checks, Preparing, Ours, Theirs
<1> QED BY <1>1, <1>2 DEF Achieved

LEMMA StartStep == VInv /\ ValidationStarts => VInv'
<1> SUFFICES ASSUME VInv, ValidationStarts PROVE VInv'
  OBVIOUS
<1> USE DEF ValidationStarts
<1>1. validation' = [Resting EXCEPT !.at = "diff"]
  OBVIOUS
<1>2. ValidationTyped'
  <2>1. Resting \in ValidationState /\ Resting.ran = 0 /\ Resting.plan = <<>>
    BY DEF Resting, ValidationState
  <2>2. /\ validation' \in ValidationState /\ validation'.ran = Resting.ran
        /\ validation'.plan = Resting.plan
    BY <1>1, <2>1 DEF ValidationState, Awaiting
  <2> QED BY <2>1, <2>2 DEF ValidationTyped
<1>3. JobAtWork' /\ Gated' /\ OkUnlessFailed' /\ AbortFails' /\ Prepares' /\ Checks'
  BY <1>1 DEF Resting, JobAtWork, Gated, OkUnlessFailed, AbortFails, Prepares, Checks,
    Preparing, Ours, Theirs
<1>4. report' \in [passed : BOOLEAN, whole : BOOLEAN, trusted : BOOLEAN] /\ PassedReportIsWhole'
  BY DEF NoReport, PassedReportIsWhole
<1> QED
  BY <1>2, <1>3, <1>4, Facts
    DEF VInv, Achieved, ValidationTypeOK, ValidationTyped, Marked, MarkedIn, tree

LEMMA AbortStep == VInv /\ ValidationAborts => VInv'
<1> SUFFICES ASSUME VInv, ValidationAborts PROVE VInv'
  OBVIOUS
<1> USE DEF ValidationAborts
<1>1. /\ validation' \in ValidationState /\ validation'.at = validation.at
      /\ validation'.jobs = validation.jobs /\ validation'.ok = validation.ok
      /\ validation'.failed = validation.failed /\ validation'.aborted = TRUE
      /\ validation'.plan = validation.plan /\ validation'.ran = validation.ran
      /\ validation'.prepared = validation.prepared
  BY Facts DEF ValidationState
<1>2. UNCHANGED <<tree, excluded, venv, modules, report, workEdits>>
  OBVIOUS
<1>3. ValidationTyped' /\ JobAtWork'
  BY <1>1, Facts DEF ValidationTyped, JobAtWork, Job, VInv
<1>4. Gated' /\ OkUnlessFailed' /\ AbortFails'
  BY <1>1, <1>2 DEF VInv, Achieved, Gated, OkUnlessFailed, AbortFails, Underway, tree
<1>5. Prepares'
  <2> SUFFICES ASSUME project.approved, ~validation'.failed PROVE
         /\ validation'.at \in Preparing \cup {"planning"} =>
              \A i \in DOMAIN Jobs : Trusted(Jobs[i])' \/ Awaits(Jobs[i])'
         /\ validation'.at = "planning" => validation'.jobs = <<>>
    BY <1>2, JobsKept DEF Prepares, tree
  <2> QED BY <1>1, <1>2, JobsKept, TrustKept DEF VInv, Achieved, Prepares, Awaits, tree
<1>6. Checks'
  BY <1>1, <1>2, TrustKept DEF VInv, Achieved, Checks, tree
<1> QED BY <1>2, <1>3, <1>4, <1>5, <1>6, Assembled, Facts DEF Achieved, MarkedIn

LEMMA GatesStep == VInv /\ GatesRun => VInv'
<1> SUFFICES ASSUME VInv, NEW exits \in BOOLEAN, NEW written \in BOOLEAN, Underway("diff"),
                    exits => clean,
                    IF ~Passes(exits) \/ ~SecretScan
                    THEN /\ validation' = [validation EXCEPT !.at = "reporting", !.failed = TRUE]
                         /\ UNCHANGED excluded
                    ELSE IF ~project.approved
                    THEN Goes("planning") /\ UNCHANGED excluded
                    ELSE /\ excluded' = (excluded \/ written)
                         /\ validation' = IF Excludes(written)
                              THEN [validation EXCEPT !.at = "job", !.jobs = Jobs]
                              ELSE [validation EXCEPT !.at = "planning", !.failed = TRUE],
                    UNCHANGED <<tree, venv, modules, report, workEdits>>
             PROVE  VInv'
  BY DEF GatesRun
<1>1. excluded' \in BOOLEAN
  BY Facts
<1>2. ValidationTyped' /\ JobAtWork' /\ Achieved'
  <2>1. ASSUME NEW at \in {"reporting", "planning"},
               validation' = [validation EXCEPT !.at = at, !.failed = TRUE]
        PROVE  ValidationTyped' /\ JobAtWork' /\ Achieved'
    <3>1. /\ validation' \in ValidationState /\ validation'.at = at /\ validation'.failed = TRUE
          /\ validation'.plan = validation.plan /\ validation'.ran = validation.ran
      BY <2>1, Facts DEF ValidationState
    <3> QED
      BY <3>1, Facts DEF ValidationTyped, JobAtWork, VInv, Achieved, Gated, OkUnlessFailed,
        AbortFails, Prepares, Checks, Ours, Theirs, Underway
  <2>2. ASSUME Passes(exits), SecretScan, ~project.approved, Goes("planning")
        PROVE  ValidationTyped' /\ JobAtWork' /\ Achieved'
    <3>1. /\ validation' \in ValidationState /\ validation'.at = "planning"
          /\ validation'.failed = validation.failed /\ validation'.ok = validation.ok
          /\ validation'.aborted = validation.aborted
          /\ validation'.plan = validation.plan /\ validation'.ran = validation.ran
      BY <2>2, GoesFields, Facts DEF Going
    <3> QED
      BY <2>2, <3>1, Facts DEF ValidationTyped, JobAtWork, VInv, Achieved, Gated, OkUnlessFailed,
        AbortFails, Prepares, Checks, Ours, Theirs, Passes, SecretScan, Underway, tree
  <2>3. ASSUME Passes(exits), SecretScan, validation' = [validation EXCEPT !.at = "job", !.jobs = Jobs]
        PROVE  ValidationTyped' /\ JobAtWork' /\ Achieved'
    <3>1. /\ validation' \in ValidationState /\ validation'.at = "job" /\ validation'.jobs = Jobs
          /\ validation'.failed = validation.failed /\ validation'.ok = validation.ok
          /\ validation'.aborted = validation.aborted
          /\ validation'.plan = validation.plan /\ validation'.ran = validation.ran
      BY <2>3, JobsTyped, Facts DEF ValidationState
    <3>2. \A i \in DOMAIN Jobs : Awaits(Jobs[i])'
      BY <3>1, JobsKept DEF Awaits, tree
    <3>3. Prepares'
      BY <3>1, <3>2, JobsKept DEF Prepares, tree
    <3> QED
      BY <2>3, <3>1, <3>3, Facts DEF ValidationTyped, JobAtWork, VInv, Achieved, Gated,
        OkUnlessFailed, AbortFails, Checks, Ours, Theirs, Passes, SecretScan, Underway, tree
  <2>4. "reporting" \in {"reporting", "planning"} /\ "planning" \in {"reporting", "planning"}
    OBVIOUS
  <2> QED BY <2>1, <2>2, <2>3, <2>4
<1> QED BY <1>1, <1>2, Assembled, Facts DEF MarkedIn

LEMMA JobsEndStep == VInv /\ JobsEnd => VInv'
<1> SUFFICES ASSUME VInv, JobsEnd PROVE VInv'
  OBVIOUS
<1>1. /\ validation.at = "job" /\ (validation.jobs = <<>> \/ validation.aborted)
      /\ Goes("planning") /\ UNCHANGED <<tree, excluded, venv, modules, report, workEdits>>
  BY DEF JobsEnd, Underway
<1>2. /\ validation' \in ValidationState /\ validation'.at = "planning"
      /\ validation'.jobs = validation.jobs /\ validation'.ok = validation.ok
      /\ validation'.failed = validation.failed /\ validation'.aborted = validation.aborted
      /\ validation'.plan = validation.plan /\ validation'.ran = validation.ran
  BY <1>1, GoesFields, Facts DEF Going
<1>3. validation.aborted => validation.failed
  BY <1>1 DEF VInv, Achieved, AbortFails, Awaiting
<1>4. ValidationTyped' /\ JobAtWork' /\ Gated' /\ OkUnlessFailed' /\ AbortFails' /\ Checks'
  BY <1>1, <1>2, <1>3, Facts DEF ValidationTyped, JobAtWork, VInv, Achieved, Gated, OkUnlessFailed,
    AbortFails, Checks, Ours, Theirs, tree
<1>5. Prepares'
  <2> SUFFICES ASSUME project.approved, ~validation'.failed, NEW i \in DOMAIN Jobs
               PROVE  Trusted(Jobs[i])'
    BY <1>1, <1>2, <1>3, JobsKept DEF Prepares, tree
  <2>1. Trusted(Jobs[i]) \/ Awaits(Jobs[i])
    BY <1>1, <1>2 DEF VInv, Achieved, Prepares, Preparing
  <2>2. ~Awaits(Jobs[i])
    BY <1>1, <1>2, <1>3 DEF Awaits
  <2> QED BY <1>1, <2>1, <2>2, JobsKept, TrustKept DEF tree
<1> QED BY <1>1, <1>4, <1>5, Assembled, Facts DEF Achieved, MarkedIn

LEMMA PlanStep == VInv /\ Plans => VInv'
<1> SUFFICES ASSUME VInv, Plans PROVE VInv'
  OBVIOUS
<1> DEFINE plan == Plan
           prepared == IF project.approved THEN {Jobs[i] : i \in DOMAIN Jobs} ELSE {}
<1>1. /\ validation.at = "planning"
      /\ validation' = [validation EXCEPT !.at = "check", !.plan = plan, !.prepared = prepared]
      /\ UNCHANGED <<tree, excluded, venv, modules, report, workEdits>>
  BY DEF Plans, Underway
<1>2. plan \in Seq(PlannedCheck) /\ prepared \in SUBSET EnvironmentJob
  BY PlanTyped, ProjectTyped, JobsTyped DEF VInv
<1>3. ~validation.failed => validation.ok /\ clean /\ ~validation.aborted
  BY <1>1 DEF VInv, Achieved, Gated, OkUnlessFailed, AbortFails, Awaiting
<1>4. ~validation.failed => \A job \in prepared : Trusted(job)'
  <2> SUFFICES ASSUME ~validation.failed, project.approved, NEW i \in DOMAIN Jobs
               PROVE  \A job \in {Jobs[i]} : Trusted(job)'
    OBVIOUS
  <2>1. (Trusted(Jobs[i]) \/ Awaits(Jobs[i])) /\ validation.jobs = <<>>
    BY <1>1 DEF VInv, Achieved, Prepares
  <2> QED BY <1>1, <2>1, TrustKept DEF Awaits, tree
<1> HIDE DEF plan, prepared
<1>5. /\ validation' \in ValidationState /\ validation'.at = "check"
      /\ validation'.ok = validation.ok /\ validation'.aborted = validation.aborted
      /\ validation'.failed = validation.failed /\ validation'.prepared = prepared
      /\ validation'.plan = plan /\ validation'.ran = validation.ran
  BY <1>1, <1>2, Facts DEF ValidationState, Awaiting
<1>6. validation.ran = 0
  BY <1>1 DEF VInv, Achieved, Checks
<1>7. ValidationTyped' /\ JobAtWork' /\ Achieved'
  BY <1>1, <1>2, <1>3, <1>4, <1>5, <1>6 DEF ValidationTyped, JobAtWork, Achieved, Gated,
    OkUnlessFailed, AbortFails, Prepares, Checks, Ours, Theirs, Preparing, tree
<1> QED BY <1>1, <1>7, Assembled, Facts DEF MarkedIn

LEMMA CheckStep == VInv /\ CheckEnds => VInv'
<1> SUFFICES ASSUME VInv, NEW exits \in BOOLEAN, Underway("check"),
                    validation.ran < Len(validation.plan),
                    LET check == validation.plan[validation.ran + 1]
                        passed == check.skipped \/ Passes(exits)
                    IN validation' = [validation EXCEPT !.ran = @ + 1, !.failed = @ \/ ~passed,
                         !.at = IF validation.aborted \/ validation.ran + 1 = Len(validation.plan)
                                THEN "reporting" ELSE "check"],
                    UNCHANGED <<tree, excluded, venv, modules, report, workEdits>>
             PROVE  VInv'
  BY DEF CheckEnds
<1> DEFINE passed == validation.plan[validation.ran + 1].skipped \/ Passes(exits)
           failed == validation.failed \/ ~passed
           at == IF validation.aborted \/ validation.ran + 1 = Len(validation.plan)
                 THEN "reporting" ELSE "check"
<1>1. validation' = [validation EXCEPT !.ran = validation.ran + 1, !.failed = failed, !.at = at]
  OBVIOUS
<1>2. /\ failed \in BOOLEAN /\ at \in {"reporting", "check"}
      /\ at \in Awaiting \cup {"reporting"} /\ validation.ran + 1 \in Nat
      /\ validation.ran \in Nat /\ validation.plan \in Seq(PlannedCheck)
  BY Facts DEF ValidationState, Awaiting
<1>3. validation.aborted => failed
  BY DEF VInv, Achieved, AbortFails, Passes, Underway
<1>4. validation.failed => failed
  OBVIOUS
<1>5. at = "reporting" /\ ~failed => validation.ran + 1 = Len(validation.plan)
  BY <1>3
<1> HIDE DEF failed, at
<1>6. /\ validation' \in ValidationState /\ validation'.at = at
      /\ validation'.ok = validation.ok /\ validation'.aborted = validation.aborted
      /\ validation'.failed = failed /\ validation'.prepared = validation.prepared
      /\ validation'.plan = validation.plan /\ validation'.ran = validation.ran + 1
  BY <1>1, <1>2, Facts DEF ValidationState
<1>7. validation.plan # <<>>
  BY <1>2
<1>8. Checks'
  BY <1>2, <1>4, <1>5, <1>6, <1>7, TrustKept DEF Checks, VInv, Achieved, Underway, tree
<1>9. ValidationTyped' /\ JobAtWork' /\ Achieved'
  BY <1>2, <1>3, <1>4, <1>6, <1>8, Facts DEF ValidationTyped, JobAtWork, VInv, Achieved, Gated,
    OkUnlessFailed, AbortFails, Prepares, Ours, Theirs, Preparing, Underway, tree
<1> QED BY <1>9, Assembled, Facts DEF MarkedIn

LEMMA ReportStep == VInv /\ Reports => VInv'
<1> SUFFICES ASSUME VInv, Reports PROVE VInv'
  OBVIOUS
<1> DEFINE passed == ~validation.failed
           whole == clean /\ validation.plan # <<>> /\ validation.ran = Len(validation.plan)
                    /\ ~validation.aborted
           trusted == \A job \in validation.prepared : Trusted(job)
<1>1. /\ validation.at = "reporting" /\ validation' = Resting
      /\ report' = [passed |-> passed, whole |-> whole, trusted |-> trusted]
      /\ UNCHANGED <<tree, excluded, venv, modules, workEdits>>
  BY DEF Reports, Underway
<1>2. passed \in BOOLEAN /\ whole \in BOOLEAN /\ trusted \in BOOLEAN
  BY Facts
<1>3. passed => whole /\ trusted
  BY <1>1 DEF VInv, Achieved, Gated, AbortFails, Checks, Awaiting
<1> HIDE DEF passed, whole, trusted
<1>4. /\ report' \in [passed : BOOLEAN, whole : BOOLEAN, trusted : BOOLEAN]
      /\ PassedReportIsWhole'
  BY <1>1, <1>2, <1>3 DEF PassedReportIsWhole
<1> QED
  BY <1>1, <1>4, RestingSound, Facts
    DEF VInv, ValidationTypeOK, ValidationTyped, Marked, MarkedIn, tree

-----------------------------------------------------------------------------
\* Providers and crashes.

LEMMA BetweenStep == VInv /\ (EditsManifests \/ EditsFiles \/ RemovesEnvironments) => VInv'
<1> SUFFICES ASSUME VInv, EditsManifests \/ EditsFiles \/ RemovesEnvironments PROVE VInv'
  OBVIOUS
<1>1. /\ validation.at = "idle" /\ UNCHANGED <<project, excluded, validation>>
      /\ report' = NoReport /\ workEdits' \in 0 .. MaxWorkEdits
      /\ revision' \in Revisions /\ clean' \in BOOLEAN
  <2>1. clean \in BOOLEAN /\ revision \in Revisions /\ workEdits \in 0 .. MaxWorkEdits
    BY DEF VInv, ValidationTypeOK
  <2>2. CASE EditsManifests
    BY <2>1, <2>2, ValidationBounds DEF EditsManifests, WorkEdit, Underway
  <2>3. CASE EditsFiles
    BY <2>1, <2>3, ValidationBounds DEF EditsFiles, WorkEdit, Underway
  <2>4. CASE RemovesEnvironments
    BY <2>1, <2>4, ValidationBounds DEF RemovesEnvironments, WorkEdit, Underway, tree
  <2> QED BY <2>2, <2>3, <2>4
<1>2. /\ venv' \in [Dirs -> Environment] /\ MarkedIn(venv)'
      /\ modules' \in [Dirs -> Environment] /\ MarkedIn(modules)'
  <2>1. CASE UNCHANGED <<venv, modules>>
    BY <2>1, Facts DEF MarkedIn
  <2>2. CASE RemovesEnvironments
    <3>1. NoEnvironment \in Environment /\ NoEnvironment.marker = 0
      BY DEF NoEnvironment, Environment
    <3>2. \A d \in Dirs : /\ [modules[d] EXCEPT !.made = FALSE] \in Environment
                          /\ [modules[d] EXCEPT !.made = FALSE].marker = modules[d].marker
                          /\ [modules[d] EXCEPT !.made = FALSE].ever = modules[d].ever
      BY Facts DEF Environment
    <3>3. venv' \in [Dirs -> Environment] /\ modules' \in [Dirs -> Environment]
      BY <2>2, <3>1, <3>2 DEF RemovesEnvironments
    <3>4. MarkedIn(venv') /\ MarkedIn(modules')
      BY <2>2, <3>1, <3>2, Facts DEF RemovesEnvironments, MarkedIn
    <3> QED BY <3>3, <3>4 DEF MarkedIn
  <2> QED BY <2>1, <2>2 DEF EditsManifests, EditsFiles
<1>3. report' \in [passed : BOOLEAN, whole : BOOLEAN, trusted : BOOLEAN] /\ PassedReportIsWhole'
  BY <1>1 DEF NoReport, PassedReportIsWhole
<1>4. JobAtWork' /\ Gated' /\ OkUnlessFailed' /\ AbortFails' /\ Prepares' /\ Checks'
  BY <1>1 DEF VInv, Achieved, JobAtWork, Gated, OkUnlessFailed, AbortFails, Prepares, Checks,
    Ours, Theirs, Preparing, Awaiting
<1> QED
  BY <1>1, <1>2, <1>3, <1>4 DEF VInv, ValidationTypeOK, Marked, Achieved

LEMMA LostStep == VInv /\ ValidationLost => VInv'
<1> SUFFICES ASSUME VInv, ValidationLost PROVE VInv'
  OBVIOUS
<1>1. /\ validation' = Resting /\ workEdits' \in 0 .. MaxWorkEdits
      /\ UNCHANGED <<tree, excluded, venv, modules, report>>
  BY ValidationBounds DEF ValidationLost, WorkEdit, VInv, ValidationTypeOK
<1> QED
  BY <1>1, RestingSound, Facts
    DEF VInv, ValidationTypeOK, ValidationTyped, Marked, MarkedIn, PassedReportIsWhole, tree

LEMMA ValidationInitHolds == ValidationInit => VInv
<1> SUFFICES ASSUME NEW p \in Projects, ValidationStartsWith(p) PROVE VInv
  BY DEF ValidationInit
<1> USE DEF ValidationStartsWith
<1>1. NoEnvironment \in Environment /\ NoEnvironment.marker = 0
  BY DEF NoEnvironment, Environment
<1>2. Marked /\ venv \in [Dirs -> Environment] /\ modules \in [Dirs -> Environment]
  BY <1>1 DEF Marked, MarkedIn
<1>3. validation \in ValidationState /\ validation.ran <= Len(validation.plan)
  BY DEF Resting, ValidationState
<1>4. report \in [passed : BOOLEAN, whole : BOOLEAN, trusted : BOOLEAN] /\ PassedReportIsWhole
  BY DEF NoReport, PassedReportIsWhole
<1>5. /\ revision \in Revisions /\ project \in Projects /\ workEdits \in 0 .. MaxWorkEdits
  BY ValidationBounds DEF Revisions
<1>6. clean \in BOOLEAN /\ excluded \in BOOLEAN
  OBVIOUS
<1>7. ValidationTypeOK
  BY <1>5, <1>6, <1>2, <1>3, <1>4, ValidationBounds DEF ValidationTypeOK, Revisions
<1>8. JobAtWork /\ Achieved
  BY DEF Resting, JobAtWork, Achieved, Gated, OkUnlessFailed, AbortFails, Prepares, Checks,
    Ours, Theirs, Preparing
<1> QED BY <1>2, <1>4, <1>7, <1>8 DEF VInv

LEMMA ValidationStep == VInv /\ [ValidationNext]_validationVars => VInv'
<1> SUFFICES ASSUME VInv, [ValidationNext]_validationVars PROVE VInv'
  OBVIOUS
<1>1. CASE ValidationNext
  BY <1>1, StartStep, AbortStep, GatesStep, JobsEndStep, StartsPythonStep, VenvStep, PipStep,
    PytestStep, StartsNodeStep, InstallStep, VerifyStep, PlanStep, CheckStep, ReportStep,
    BetweenStep, LostStep
    DEF ValidationNext
<1>2. CASE UNCHANGED validationVars
  <2>1. UNCHANGED <<project, revision, clean, excluded, venv, modules, validation, report, workEdits>>
    BY <1>2 DEF validationVars
  <2>2. Jobs' = Jobs /\ \A job : Trusted(job)' = Trusted(job)
    BY <2>1, JobsKept, TrustKept
  <2>3. JobAtWork' /\ Achieved'
    BY <2>1, <2>2 DEF VInv, JobAtWork, Job, Achieved, Gated, OkUnlessFailed, AbortFails, Prepares,
      Checks, Awaits
  <2> QED BY <2>1, <2>3 DEF VInv, ValidationTypeOK, Marked, MarkedIn, PassedReportIsWhole
<1> QED BY <1>1, <1>2

LEMMA ValidationInvariant == ValidationSpec => []VInv
  BY ValidationInitHolds, ValidationStep, PTL DEF ValidationSpec

-----------------------------------------------------------------------------
\* Every variable of a validation keeps its type, whatever the project is: the plan
\* discovery returns and the jobs of prepareEnvironment are of the kinds run expects.
THEOREM ValidationTypeCorrect == ValidationSpec => []ValidationTypeOK
<1>1. VInv => ValidationTypeOK
  BY DEF VInv
<1> QED BY <1>1, ValidationInvariant, PTL

\* A report of DeterministicValidationRunner.run that passed passed both gates and ran
\* its whole plan, and the environments prepareEnvironment spared it from installing
\* had these manifests installed in them; for any project, any number of edits,
\* aborts, failed installations and deaths.
THEOREM PassedReportIsWholeHolds == ValidationSpec => []PassedReportIsWhole
<1>1. VInv => PassedReportIsWhole
  BY DEF VInv
<1> QED BY <1>1, ValidationInvariant, PTL

-----------------------------------------------------------------------------
(* Delivery                                                                *)

\* With nothing uncommitted, the last commit reaches every edit.
BranchHoldsWork == files = {} /\ commits # <<>> => Last(commits).holds = 1 .. edits

\* A delivery at work goes on with the last commit, which some delivery made.
DeliversLast ==
  delivery.at # "idle" =>
    /\ files = {} /\ commits # <<>>
    /\ delivery.commit = Len(commits) /\ Last(commits).by = "delivery"

\* What was pushed and what was listed still hold when they are used.
PushedFirst ==
  /\ delivery.at \in {"listing", "creating"} => pushed = Len(commits)
  /\ delivery.at # "recording" => delivery.url = "none"
  /\ delivery.url = "pull" => pushed = Len(commits) /\ pulls # <<>>

OneOpenPull ==
  /\ \A i, j \in Open : i = j
  /\ delivery.at = "creating" => Open = {}

DInv == DeliveryTypeOK /\ BranchHoldsWork /\ DeliversLast /\ PushedFirst /\ OneOpenPull

-----------------------------------------------------------------------------
\* What the last of a sequence is after an Append.
LEMMA AppendedLast ==
  ASSUME NEW S, NEW s \in Seq(S), NEW e \in S
  PROVE  /\ Append(s, e) \in Seq(S) /\ Append(s, e) # <<>>
         /\ Len(Append(s, e)) = Len(s) + 1 /\ Last(Append(s, e)) = e
  BY DEF Last

\* A longer branch leaves the types of what is delivered and recorded as they are.
LEMMA BranchGrows ==
  ASSUME DeliveryTypeOK, NEW c \in BranchCommit, commits' = Append(commits, c)
  PROVE  /\ commits' \in Seq(BranchCommit) /\ Len(commits') = Len(commits) + 1
         /\ commits' # <<>> /\ Last(commits') = c
         /\ 0 .. Len(commits) \subseteq 0 .. Len(commits')
         /\ Len(commits') \in 0 .. Len(commits')
<1>1. commits \in Seq(BranchCommit)
  BY DEF DeliveryTypeOK
<1>2. /\ commits' \in Seq(BranchCommit) /\ Len(commits') = Len(commits) + 1
      /\ commits' # <<>> /\ Last(commits') = c
  BY <1>1, AppendedLast
<1> QED BY <1>1, <1>2

LEMMA DeliveryInitHolds == DeliveryInit => DInv
<1>1. ASSUME DeliveryInit PROVE DInv
  <2> USE <1>1 DEF DeliveryInit
  <2>1. /\ pulls \in Seq(PullState) /\ Open = {}
        /\ commits \in Seq(BranchCommit) /\ Len(commits) = 0
    BY DEF Open
  <2>2. hosted \in [there : BOOLEAN, foreign : BOOLEAN]
    OBVIOUS
  <2>3. DeliveryTypeOK
    BY <2>1, <2>2, DeliveryBounds
      DEF DeliveryTypeOK, NotDelivering, NotRecorded, DeliveryAt, DeliveryURL
  <2> QED
    BY <2>1, <2>3 DEF DInv, BranchHoldsWork, DeliversLast, PushedFirst, OneOpenPull, NotDelivering
<1> QED BY <1>1

-----------------------------------------------------------------------------
\* The steps of a delivery.

LEMMA CommitStep == DInv /\ CommitsChanges => DInv'
<1> SUFFICES ASSUME DInv, CommitsChanges PROVE DInv'
  OBVIOUS
<1> USE DeliveryBounds DEF CommitsChanges, DInv, DeliveryTypeOK
<1>1. CASE files # {}
  <2> DEFINE own == [by |-> "delivery", holds |-> 1 .. edits]
  <2>1. own \in BranchCommit
    BY DEF BranchCommit
  <2>2. /\ files' = {} /\ commits' = Append(commits, own)
        /\ delivery' = [NotDelivering EXCEPT !.at = "publishing", !.commit = Len(commits')]
    BY <1>1
  <2>3. /\ commits' \in Seq(BranchCommit) /\ Len(commits') = Len(commits) + 1
        /\ commits' # <<>> /\ Last(commits') = own
        /\ 0 .. Len(commits) \subseteq 0 .. Len(commits') /\ Len(commits') \in 0 .. Len(commits')
    BY <2>1, <2>2, BranchGrows
  <2>4. /\ delivery'.at = "publishing" /\ delivery'.commit = Len(commits')
        /\ delivery'.url = "none"
        /\ delivery' \in [at : DeliveryAt, commit : 0 .. Len(commits'), url : DeliveryURL]
    BY <2>2, <2>3 DEF NotDelivering, DeliveryAt, DeliveryURL
  <2>5. recorded' \in [commit : 0 .. Len(commits'), url : DeliveryURL]
    BY <2>3
  <2>6. DeliveryTypeOK'
    BY <2>2, <2>3, <2>4, <2>5
  <2> QED
    BY <2>2, <2>3, <2>4, <2>6 DEF BranchHoldsWork, DeliversLast, PushedFirst, OneOpenPull, Open
<1>2. CASE files = {}
  <2>1. /\ Resumable /\ UNCHANGED <<files, commits>>
        /\ delivery' = [NotDelivering EXCEPT !.at = "publishing", !.commit = Len(commits)]
    BY <1>2
  <2>2. Len(commits) \in 0 .. Len(commits)
    OBVIOUS
  <2>3. DeliveryTypeOK'
    BY <2>1, <2>2 DEF NotDelivering, DeliveryAt, DeliveryURL
  <2> QED
    BY <1>2, <2>1, <2>3 DEF BranchHoldsWork, DeliversLast, PushedFirst, OneOpenPull, Open, Last,
      NotDelivering, Resumable
<1> QED BY <1>1, <1>2

\* How a delivery goes on keeps its type.
LEMMA GoesOnTyped ==
  ASSUME DeliveryTypeOK, commits' = commits
  PROVE  LET D == [at : DeliveryAt, commit : 0 .. Len(commits'), url : DeliveryURL] IN
         /\ Fails => delivery' \in D /\ delivery'.at = "idle" /\ delivery'.url = "none"
         /\ \A at \in DeliveryAt : OnTo(at) =>
              /\ delivery' \in D /\ delivery'.at = at
              /\ delivery'.url = delivery.url /\ delivery'.commit = delivery.commit
         /\ \A url \in DeliveryURL : With(url) =>
              /\ delivery' \in D /\ delivery'.at = "recording"
              /\ delivery'.url = url /\ delivery'.commit = delivery.commit
<1> DEFINE D == [at : DeliveryAt, commit : 0 .. Len(commits'), url : DeliveryURL]
<1>1. /\ delivery \in D /\ 0 \in 0 .. Len(commits') /\ "idle" \in DeliveryAt
      /\ "recording" \in DeliveryAt /\ "none" \in DeliveryURL
  BY DEF DeliveryTypeOK, DeliveryAt, DeliveryURL
<1>2. Fails => delivery' \in D /\ delivery'.at = "idle" /\ delivery'.url = "none"
  BY <1>1 DEF Fails, NotDelivering
<1>3. ASSUME NEW at \in DeliveryAt, OnTo(at)
      PROVE  /\ delivery' \in D /\ delivery'.at = at
             /\ delivery'.url = delivery.url /\ delivery'.commit = delivery.commit
  BY <1>1, <1>3 DEF OnTo
<1>4. ASSUME NEW url \in DeliveryURL, With(url)
      PROVE  /\ delivery' \in D /\ delivery'.at = "recording"
             /\ delivery'.url = url /\ delivery'.commit = delivery.commit
  BY <1>1, <1>4 DEF With
<1> QED BY <1>2, <1>3, <1>4

LEMMA PushStep == DInv /\ Pushes => DInv'
<1> SUFFICES ASSUME DInv, Pushes PROVE DInv'
  OBVIOUS
<1> USE DEF DInv, Pushes, worktree
<1>1. CASE Fails \/ With("local")
  <2>1. DeliveryTypeOK'
    BY <1>1, GoesOnTyped DEF DeliveryTypeOK, DeliveryURL
  <2> QED
    BY <1>1, <2>1, GoesOnTyped
      DEF BranchHoldsWork, DeliversLast, PushedFirst, OneOpenPull, Open, Last, DeliveryURL
<1>2. CASE OnTo("listing") /\ pushed' = Len(commits)
  <2>1. DeliveryTypeOK'
    BY <1>2, GoesOnTyped DEF DeliveryTypeOK, DeliveryAt
  <2> QED
    BY <1>2, <2>1, GoesOnTyped
      DEF BranchHoldsWork, DeliversLast, PushedFirst, OneOpenPull, Open, Last, DeliveryAt
<1> QED BY <1>1, <1>2

LEMMA ListStep == DInv /\ ListsPulls => DInv'
<1> SUFFICES ASSUME DInv, ListsPulls PROVE DInv'
  OBVIOUS
<1> USE DEF DInv, ListsPulls, worktree
<1>1. CASE Fails \/ With("local")
  <2>1. DeliveryTypeOK'
    BY <1>1, GoesOnTyped DEF DeliveryTypeOK, DeliveryURL
  <2> QED
    BY <1>1, <2>1, GoesOnTyped
      DEF BranchHoldsWork, DeliversLast, PushedFirst, OneOpenPull, Open, Last, DeliveryURL
<1>2. CASE Listed # {} /\ With("pull")
  <2>1. DeliveryTypeOK'
    BY <1>2, GoesOnTyped DEF DeliveryTypeOK, DeliveryURL
  <2>2. pulls # <<>>
    BY <1>2 DEF Listed, Open
  <2> QED
    BY <1>2, <2>1, <2>2, GoesOnTyped
      DEF BranchHoldsWork, DeliversLast, PushedFirst, OneOpenPull, Open, Last, DeliveryURL
<1>3. CASE Listed = {} /\ OnTo("creating")
  <2>1. DeliveryTypeOK'
    BY <1>3, GoesOnTyped DEF DeliveryTypeOK, DeliveryAt
  <2> QED
    BY <1>3, <2>1, GoesOnTyped
      DEF BranchHoldsWork, DeliversLast, PushedFirst, OneOpenPull, Open, Last, DeliveryAt, Listed
<1> QED BY <1>1, <1>2, <1>3

\* A pull request opened where none is open is the only one.
LEMMA OpenedAlone ==
  ASSUME pulls \in Seq(PullState), Open = {}, pulls' = Append(pulls, "open")
  PROVE  Open' = {Len(pulls) + 1} /\ pulls' # <<>> /\ pulls' \in Seq(PullState)
<1>1. "open" \in PullState
  BY DEF PullState
<1>2. /\ pulls' \in Seq(PullState) /\ Len(pulls') = Len(pulls) + 1 /\ pulls' # <<>>
      /\ pulls'[Len(pulls) + 1] = "open" /\ \A i \in DOMAIN pulls : pulls'[i] = pulls[i]
      /\ DOMAIN pulls' = DOMAIN pulls \cup {Len(pulls) + 1}
  BY <1>1
<1> QED BY <1>2 DEF Open

LEMMA CreateStep == DInv /\ CreatesPull => DInv'
<1> SUFFICES ASSUME DInv, CreatesPull PROVE DInv'
  OBVIOUS
<1> USE DEF DInv, CreatesPull, worktree
<1>1. CASE pulls' = Append(pulls, "open") /\ (With("pull") \/ Fails)
  <2>1. (\A i, j \in Open' : i = j) /\ pulls' # <<>> /\ pulls' \in Seq(PullState)
    BY <1>1, OpenedAlone DEF OneOpenPull, DeliveryTypeOK
  <2>2. DeliveryTypeOK'
    BY <1>1, <2>1, GoesOnTyped DEF DeliveryTypeOK, DeliveryURL
  <2> QED
    BY <1>1, <2>1, <2>2, GoesOnTyped
      DEF BranchHoldsWork, DeliversLast, PushedFirst, OneOpenPull, Last, DeliveryURL
<1>2. CASE (With("local") \/ Fails) /\ UNCHANGED pulls
  <2>1. DeliveryTypeOK'
    BY <1>2, GoesOnTyped DEF DeliveryTypeOK, DeliveryURL
  <2> QED
    BY <1>2, <2>1, GoesOnTyped
      DEF BranchHoldsWork, DeliversLast, PushedFirst, OneOpenPull, Open, Last, DeliveryURL
<1> QED BY <1>1, <1>2

LEMMA RecordStep == DInv /\ RecordsDelivery => DInv'
<1> SUFFICES ASSUME DInv, RecordsDelivery PROVE DInv'
  OBVIOUS
<1> USE DEF DInv, RecordsDelivery, worktree
<1>1. DeliveryTypeOK'
  BY GoesOnTyped DEF DeliveryTypeOK
<1> QED
  BY <1>1, GoesOnTyped
    DEF BranchHoldsWork, DeliversLast, PushedFirst, OneOpenPull, Open, Last

-----------------------------------------------------------------------------
\* Providers, people and crashes.

LEMMA ProviderStep ==
  DInv /\ (ProviderEdits \/ ProviderRepairs \/ ProviderCommits) => DInv'
<1> SUFFICES ASSUME DInv, ProviderEdits \/ ProviderRepairs \/ ProviderCommits PROVE DInv'
  OBVIOUS
<1> USE DeliveryBounds DEF DInv, DeliveryTypeOK
<1>1. CASE ProviderEdits
  BY <1>1 DEF ProviderEdits, BranchHoldsWork, DeliversLast, PushedFirst, OneOpenPull, Open, Last
<1>2. CASE ProviderRepairs
  BY <1>2 DEF ProviderRepairs, BranchHoldsWork, DeliversLast, PushedFirst, OneOpenPull, Open, Last
<1>3. CASE ProviderCommits
  <2> DEFINE own == [by |-> "provider", holds |-> 1 .. edits]
  <2>1. own \in BranchCommit
    BY DEF BranchCommit
  <2>2. files' = {} /\ commits' = Append(commits, own)
    BY <1>3 DEF ProviderCommits
  <2>3. /\ commits' \in Seq(BranchCommit) /\ Len(commits') = Len(commits) + 1
        /\ commits' # <<>> /\ Last(commits') = own
        /\ 0 .. Len(commits) \subseteq 0 .. Len(commits')
    BY <2>1, <2>2, BranchGrows
  <2>4. /\ delivery' \in [at : DeliveryAt, commit : 0 .. Len(commits'), url : DeliveryURL]
        /\ recorded' \in [commit : 0 .. Len(commits'), url : DeliveryURL]
        /\ pushed' \in 0 .. Len(commits')
    BY <1>3, <2>3 DEF ProviderCommits
  <2>5. DeliveryTypeOK'
    BY <1>3, <2>2, <2>3, <2>4 DEF ProviderCommits
  <2> QED
    BY <1>3, <2>2, <2>3, <2>5
      DEF ProviderCommits, BranchHoldsWork, DeliversLast, PushedFirst, OneOpenPull, Open
<1> QED BY <1>1, <1>2, <1>3

LEMMA PeopleStep == DInv /\ (PullEnds \/ RemoteChanges \/ DeliveryLost) => DInv'
<1> SUFFICES ASSUME DInv, PullEnds \/ RemoteChanges \/ DeliveryLost PROVE DInv'
  OBVIOUS
<1> USE DeliveryBounds DEF DInv, DeliveryTypeOK, PeopleEvent, worktree
<1>1. CASE PullEnds
  <2>1. PICK i \in Open, state \in {"merged", "closed"} : pulls' = [pulls EXCEPT ![i] = state]
    BY <1>1 DEF PullEnds
  <2>2. i \in DOMAIN pulls /\ pulls' \in Seq(PullState) /\ pulls' # <<>>
    BY <2>1 DEF Open, PullState
  <2>3. Open' \subseteq Open
    BY <2>1, <2>2 DEF Open
  <2> QED
    BY <1>1, <2>2, <2>3
      DEF PullEnds, BranchHoldsWork, DeliversLast, PushedFirst, OneOpenPull, Last
<1>2. CASE RemoteChanges
  <2>1. hosted' \in [there : BOOLEAN, foreign : BOOLEAN]
    BY <1>2 DEF RemoteChanges
  <2> QED
    BY <1>2, <2>1
      DEF RemoteChanges, BranchHoldsWork, DeliversLast, PushedFirst, OneOpenPull, Open, Last
<1>3. CASE DeliveryLost
  <2>1. /\ delivery' \in [at : DeliveryAt, commit : 0 .. Len(commits'), url : DeliveryURL]
        /\ delivery'.at = "idle" /\ delivery'.url = "none"
    BY <1>3, GoesOnTyped DEF DeliveryLost
  <2> QED
    BY <1>3, <2>1
      DEF DeliveryLost, BranchHoldsWork, DeliversLast, PushedFirst, OneOpenPull, Open, Last
<1> QED BY <1>1, <1>2, <1>3

LEMMA DeliveryStep == DInv /\ [DeliveryNext]_deliveryVars => DInv'
<1> SUFFICES ASSUME DInv, [DeliveryNext]_deliveryVars PROVE DInv'
  OBVIOUS
<1>1. CASE DeliveryNext
  BY <1>1, CommitStep, PushStep, ListStep, CreateStep, RecordStep, ProviderStep, PeopleStep
    DEF DeliveryNext
<1>2. CASE UNCHANGED deliveryVars
  BY <1>2 DEF deliveryVars, DInv, DeliveryTypeOK, BranchHoldsWork, DeliversLast, PushedFirst,
    OneOpenPull, Open, Last
<1> QED BY <1>1, <1>2

LEMMA DeliveryInvariant == DeliverySpec => []DInv
  BY DeliveryInitHolds, DeliveryStep, PTL DEF DeliverySpec

-----------------------------------------------------------------------------
\* Every variable of a delivery keeps its type (GoalDelivery's state, delivery.ts).
THEOREM DeliveryTypeCorrect == DeliverySpec => []DeliveryTypeOK
<1>1. DInv => DeliveryTypeOK
  BY DEF DInv
<1> QED BY <1>1, DeliveryInvariant, PTL

\* What createGoalDeliveryHandler records is the commit with all the work, a pull
\* request stands for it only after publishGoalBranch pushed that commit, and two of
\* the branch's pull requests are never open at once, however often deliveries fail
\* half-way, lose an answer, die and are repeated.
THEOREM DeliveredIsPublishedHolds == DeliverySpec => []DeliveredIsPublished
<1>1. DInv => DeliveredIsPublished
  BY DEF DInv, DeliveryTypeOK, BranchHoldsWork, DeliversLast, PushedFirst, OneOpenPull,
    DeliveredIsPublished, Last
<1> QED BY <1>1, DeliveryInvariant, PTL

-----------------------------------------------------------------------------
(* The migration of the database                                           *)

\* A sequence and another after it, element by element: the list of statements is
\* put together from the parts of createDatabase.
LEMMA JoinedSequences ==
  ASSUME NEW S, NEW s \in Seq(S), NEW t \in Seq(S)
  PROVE /\ s \o t \in Seq(S) /\ Len(s \o t) = Len(s) + Len(t)
        /\ \A i \in 1 .. Len(s) : (s \o t)[i] = s[i]
        /\ \A i \in 1 .. Len(t) : (s \o t)[Len(s) + i] = t[i]
OBVIOUS

AllStatements ==
  {Create(TaskTables),
   Create(GoalTables),
   Create(FeatureTables),
   Create(ServiceTables),
   Add("tasks", <<"title", "specification">>),
   FillEach("untitled"),
   Create(SkillTables),
   Add("skills", <<"monitoring_active_until", "post_activation_executions">>),
   Create(GraphTables),
   Create(IntakeTables),
   Add("tasks", <<"project_id">>),
   Add("projects", <<"sync_state">>),
   Add("goal_runs", <<"wait_reason">>),
   Add("feature_plans", <<"revision">>),
   FillAll("planned"),
   Add("feature_plan_tasks", <<"contract_json">>),
   Add("features", <<"feature_plan_id">>),
   Add("improvement_proposals", <<"fingerprint">>),
   Add("goal_checkpoints", <<"objective">>),
   Index("features", "feature_plan_id"),
   Index("improvement_proposals", "fingerprint"),
   Create(PolicyTables),
   AddToOld("provider_connections", <<"connection_source">>),
   DeleteFromOld("legacy"),
   TryToAdd("provider_controls", <<"model", "effort">>),
   TryToAdd("provider_capability_routing", <<"preferred_model", "preferred_effort">>),
   Create(ChatTables),
   Add("operational_chat_threads", <<"access_mode", "provider_id">>),
   Add("operational_chat_messages", <<"thread_id", "provider_id">>),
   FillEach("unthreaded"),
   Index("operational_chat_messages", "thread_id")}

\* The parts of the list, and the list.
LEMMA CoreIs ==
  /\ Core \in Seq(AllStatements) /\ Len(Core) = 4
  /\ Core[1] = Create(TaskTables)
  /\ Core[2] = Create(GoalTables)
  /\ Core[3] = Create(FeatureTables)
  /\ Core[4] = Create(ServiceTables)
<1>1. Core = <<Create(TaskTables), Create(GoalTables), Create(FeatureTables), Create(ServiceTables)>>
  BY DEF Core
<1>2. {Create(TaskTables), Create(GoalTables), Create(FeatureTables),
      Create(ServiceTables)} \subseteq AllStatements
  BY DEF AllStatements
<1> QED BY <1>1, <1>2

LEMMA IntakeIs ==
  /\ Intake \in Seq(AllStatements) /\ Len(Intake) = 2
  /\ Intake[1] = Add("tasks", <<"title", "specification">>)
  /\ Intake[2] = FillEach("untitled")
<1>1. Intake = <<Add("tasks", <<"title", "specification">>), FillEach("untitled")>>
  BY DEF Intake
<1>2. {Add("tasks", <<"title", "specification">>), FillEach("untitled")} \subseteq AllStatements
  BY DEF AllStatements
<1> QED BY <1>1, <1>2

LEMMA SkillsIs ==
  /\ Skills \in Seq(AllStatements) /\ Len(Skills) = 2
  /\ Skills[1] = Create(SkillTables)
  /\ Skills[2] = Add("skills", <<"monitoring_active_until", "post_activation_executions">>)
<1>1. Skills = <<Create(SkillTables), Add("skills", <<"monitoring_active_until",
      "post_activation_executions">>)>>
  BY DEF Skills
<1>2. {Create(SkillTables), Add("skills", <<"monitoring_active_until",
      "post_activation_executions">>)} \subseteq AllStatements
  BY DEF AllStatements
<1> QED BY <1>1, <1>2

LEMMA GraphIs ==
  /\ <<Create(GraphTables), Create(IntakeTables)>> \in Seq(AllStatements) /\ Len(<<Create(GraphTables),
      Create(IntakeTables)>>) = 2
  /\ (<<Create(GraphTables), Create(IntakeTables)>>)[1] = Create(GraphTables)
  /\ (<<Create(GraphTables), Create(IntakeTables)>>)[2] = Create(IntakeTables)
<1>1. <<Create(GraphTables), Create(IntakeTables)>> = <<Create(GraphTables), Create(IntakeTables)>>
  OBVIOUS
<1>2. {Create(GraphTables), Create(IntakeTables)} \subseteq AllStatements
  BY DEF AllStatements
<1> QED BY <1>1, <1>2

LEMMA LaterIs ==
  /\ Later \in Seq(AllStatements) /\ Len(Later) = 9
  /\ Later[1] = Add("tasks", <<"project_id">>)
  /\ Later[2] = Add("projects", <<"sync_state">>)
  /\ Later[3] = Add("goal_runs", <<"wait_reason">>)
  /\ Later[4] = Add("feature_plans", <<"revision">>)
  /\ Later[5] = FillAll("planned")
  /\ Later[6] = Add("feature_plan_tasks", <<"contract_json">>)
  /\ Later[7] = Add("features", <<"feature_plan_id">>)
  /\ Later[8] = Add("improvement_proposals", <<"fingerprint">>)
  /\ Later[9] = Add("goal_checkpoints", <<"objective">>)
<1>1. Later = <<Add("tasks", <<"project_id">>), Add("projects", <<"sync_state">>), Add("goal_runs",
      <<"wait_reason">>), Add("feature_plans", <<"revision">>), FillAll("planned"),
          Add("feature_plan_tasks", <<"contract_json">>), Add("features", <<"feature_plan_id">>),
              Add("improvement_proposals", <<"fingerprint">>), Add("goal_checkpoints", <<"objective">>)>>
  BY DEF Later
<1>2. {Add("tasks", <<"project_id">>), Add("projects", <<"sync_state">>), Add("goal_runs",
      <<"wait_reason">>), Add("feature_plans", <<"revision">>), FillAll("planned"),
          Add("feature_plan_tasks", <<"contract_json">>), Add("features", <<"feature_plan_id">>),
              Add("improvement_proposals", <<"fingerprint">>), Add("goal_checkpoints",
                  <<"objective">>)} \subseteq AllStatements
  BY DEF AllStatements
<1> QED BY <1>1, <1>2

LEMMA IndexesIs ==
  /\ Indexes \in Seq(AllStatements) /\ Len(Indexes) = 2
  /\ Indexes[1] = Index("features", "feature_plan_id")
  /\ Indexes[2] = Index("improvement_proposals", "fingerprint")
<1>1. Indexes = <<Index("features", "feature_plan_id"), Index("improvement_proposals", "fingerprint")>>
  BY DEF Indexes
<1>2. {Index("features", "feature_plan_id"), Index("improvement_proposals",
      "fingerprint")} \subseteq AllStatements
  BY DEF AllStatements
<1> QED BY <1>1, <1>2

LEMMA PolicyIs ==
  /\ PolicyColumns \in Seq(AllStatements) /\ Len(PolicyColumns) = 5
  /\ PolicyColumns[1] = Create(PolicyTables)
  /\ PolicyColumns[2] = AddToOld("provider_connections", <<"connection_source">>)
  /\ PolicyColumns[3] = DeleteFromOld("legacy")
  /\ PolicyColumns[4] = TryToAdd("provider_controls", <<"model", "effort">>)
  /\ PolicyColumns[5] = TryToAdd("provider_capability_routing", <<"preferred_model", "preferred_effort">>)
<1>1. PolicyColumns = <<Create(PolicyTables), AddToOld("provider_connections", <<"connection_source">>),
      DeleteFromOld("legacy"), TryToAdd("provider_controls", <<"model", "effort">>),
          TryToAdd("provider_capability_routing", <<"preferred_model", "preferred_effort">>)>>
  BY DEF PolicyColumns
<1>2. {Create(PolicyTables), AddToOld("provider_connections", <<"connection_source">>),
      DeleteFromOld("legacy"), TryToAdd("provider_controls", <<"model", "effort">>),
          TryToAdd("provider_capability_routing", <<"preferred_model",
              "preferred_effort">>)} \subseteq AllStatements
  BY DEF AllStatements
<1> QED BY <1>1, <1>2

LEMMA AgainIs ==
  /\ <<Create(IntakeTables)>> \in Seq(AllStatements) /\ Len(<<Create(IntakeTables)>>) = 1
  /\ (<<Create(IntakeTables)>>)[1] = Create(IntakeTables)
<1>1. <<Create(IntakeTables)>> = <<Create(IntakeTables)>>
  OBVIOUS
<1>2. {Create(IntakeTables)} \subseteq AllStatements
  BY DEF AllStatements
<1> QED BY <1>1, <1>2

LEMMA ThreadsIs ==
  /\ Threads \in Seq(AllStatements) /\ Len(Threads) = 5
  /\ Threads[1] = Create(ChatTables)
  /\ Threads[2] = Add("operational_chat_threads", <<"access_mode", "provider_id">>)
  /\ Threads[3] = Add("operational_chat_messages", <<"thread_id", "provider_id">>)
  /\ Threads[4] = FillEach("unthreaded")
  /\ Threads[5] = Index("operational_chat_messages", "thread_id")
<1>1. Threads = <<Create(ChatTables), Add("operational_chat_threads", <<"access_mode", "provider_id">>),
      Add("operational_chat_messages", <<"thread_id", "provider_id">>), FillEach("unthreaded"),
          Index("operational_chat_messages", "thread_id")>>
  BY DEF Threads
<1>2. {Create(ChatTables), Add("operational_chat_threads", <<"access_mode", "provider_id">>),
      Add("operational_chat_messages", <<"thread_id", "provider_id">>), FillEach("unthreaded"),
          Index("operational_chat_messages", "thread_id")} \subseteq AllStatements
  BY DEF AllStatements
<1> QED BY <1>1, <1>2

LEMMA StatementsAre ==
  /\ Statements \in Seq(AllStatements) /\ Len(Statements) = 32
  /\ Statements[1] = Create(TaskTables)
  /\ Statements[2] = Create(GoalTables)
  /\ Statements[3] = Create(FeatureTables)
  /\ Statements[4] = Create(ServiceTables)
  /\ Statements[5] = Add("tasks", <<"title", "specification">>)
  /\ Statements[6] = FillEach("untitled")
  /\ Statements[7] = Create(SkillTables)
  /\ Statements[8] = Add("skills", <<"monitoring_active_until", "post_activation_executions">>)
  /\ Statements[9] = Create(GraphTables)
  /\ Statements[10] = Create(IntakeTables)
  /\ Statements[11] = Add("tasks", <<"project_id">>)
  /\ Statements[12] = Add("projects", <<"sync_state">>)
  /\ Statements[13] = Add("goal_runs", <<"wait_reason">>)
  /\ Statements[14] = Add("feature_plans", <<"revision">>)
  /\ Statements[15] = FillAll("planned")
  /\ Statements[16] = Add("feature_plan_tasks", <<"contract_json">>)
  /\ Statements[17] = Add("features", <<"feature_plan_id">>)
  /\ Statements[18] = Add("improvement_proposals", <<"fingerprint">>)
  /\ Statements[19] = Add("goal_checkpoints", <<"objective">>)
  /\ Statements[20] = Index("features", "feature_plan_id")
  /\ Statements[21] = Index("improvement_proposals", "fingerprint")
  /\ Statements[22] = Create(PolicyTables)
  /\ Statements[23] = AddToOld("provider_connections", <<"connection_source">>)
  /\ Statements[24] = DeleteFromOld("legacy")
  /\ Statements[25] = TryToAdd("provider_controls", <<"model", "effort">>)
  /\ Statements[26] = TryToAdd("provider_capability_routing", <<"preferred_model", "preferred_effort">>)
  /\ Statements[27] = Create(IntakeTables)
  /\ Statements[28] = Create(ChatTables)
  /\ Statements[29] = Add("operational_chat_threads", <<"access_mode", "provider_id">>)
  /\ Statements[30] = Add("operational_chat_messages", <<"thread_id", "provider_id">>)
  /\ Statements[31] = FillEach("unthreaded")
  /\ Statements[32] = Index("operational_chat_messages", "thread_id")
<1> DEFINE P1 == Core \o Intake
<1> DEFINE P2 == P1 \o Skills
<1> DEFINE P3 == P2 \o <<Create(GraphTables), Create(IntakeTables)>>
<1> DEFINE P4 == P3 \o Later
<1> DEFINE P5 == P4 \o Indexes
<1> DEFINE P6 == P5 \o PolicyColumns
<1> DEFINE P7 == P6 \o <<Create(IntakeTables)>>
<1> DEFINE P8 == P7 \o Threads
<1>0. Statements = P8 BY DEF Statements, MigrateStatements
<1>1. /\ P1 \in Seq(AllStatements) /\ Len(P1) = 6
      /\ P1[1] = Create(TaskTables)
      /\ P1[2] = Create(GoalTables)
      /\ P1[3] = Create(FeatureTables)
      /\ P1[4] = Create(ServiceTables)
      /\ P1[5] = Add("tasks", <<"title", "specification">>)
      /\ P1[6] = FillEach("untitled")
  <2>1. /\ Core \in Seq(AllStatements) /\ Intake \in Seq(AllStatements)
    BY CoreIs, IntakeIs
  <2>2. /\ P1 \in Seq(AllStatements) /\ Len(P1) = Len(Core) + Len(Intake)
        /\ \A i \in 1 .. Len(Core) : P1[i] = Core[i]
        /\ \A i \in 1 .. Len(Intake) : P1[Len(Core) + i] = Intake[i]
    <3> QED BY <2>1, JoinedSequences
  <2> HIDE DEF P1
  <2>3. Len(Core) = 4 /\ Len(Intake) = 2
    BY CoreIs, IntakeIs
  <2>4. /\ P1 \in Seq(AllStatements) /\ Len(P1) = 6
        /\ \A i \in 1 .. 4 : P1[i] = Core[i]
        /\ \A i \in 1 .. 2 : P1[4 + i] = Intake[i]
    BY <2>2, <2>3
  <2>5. P1[5] = Intake[1] /\ P1[6] = Intake[2]
    <3>1. P1[4 + 1] = Intake[1] BY <2>4
    <3>2. P1[4 + 2] = Intake[2] BY <2>4
    <3> QED BY <3>1, <3>2
  <2>6. P1[1] = Core[1] /\ P1[2] = Core[2] /\ P1[3] = Core[3] /\ P1[4] = Core[4]
    BY <2>4
  <2> QED BY CoreIs, IntakeIs, <2>4, <2>5, <2>6
<1>2. /\ P2 \in Seq(AllStatements) /\ Len(P2) = 8
      /\ P2[1] = Create(TaskTables)
      /\ P2[2] = Create(GoalTables)
      /\ P2[3] = Create(FeatureTables)
      /\ P2[4] = Create(ServiceTables)
      /\ P2[5] = Add("tasks", <<"title", "specification">>)
      /\ P2[6] = FillEach("untitled")
      /\ P2[7] = Create(SkillTables)
      /\ P2[8] = Add("skills", <<"monitoring_active_until", "post_activation_executions">>)
  <2>1. /\ P1 \in Seq(AllStatements) /\ Skills \in Seq(AllStatements)
    BY <1>1, SkillsIs
  <2>2. /\ P2 \in Seq(AllStatements) /\ Len(P2) = Len(P1) + Len(Skills)
        /\ \A i \in 1 .. Len(P1) : P2[i] = P1[i]
        /\ \A i \in 1 .. Len(Skills) : P2[Len(P1) + i] = Skills[i]
    <3> HIDE DEF P1
    <3> QED BY <2>1, JoinedSequences
  <2> HIDE DEF P2, P1
  <2>3. Len(P1) = 6 /\ Len(Skills) = 2
    BY <1>1, SkillsIs
  <2>4. /\ P2 \in Seq(AllStatements) /\ Len(P2) = 8
        /\ \A i \in 1 .. 6 : P2[i] = P1[i]
        /\ \A i \in 1 .. 2 : P2[6 + i] = Skills[i]
    BY <2>2, <2>3
  <2>5. P2[7] = Skills[1] /\ P2[8] = Skills[2]
    <3>1. P2[6 + 1] = Skills[1] BY <2>4
    <3>2. P2[6 + 2] = Skills[2] BY <2>4
    <3> QED BY <3>1, <3>2
  <2>6. P2[1] = P1[1] /\ P2[2] = P1[2] /\ P2[3] = P1[3] /\ P2[4] = P1[4] /\ P2[5] = P1[5] /\ P2[6] = P1[6]
    BY <2>4
  <2> QED BY <1>1, SkillsIs, <2>4, <2>5, <2>6
<1>3. /\ P3 \in Seq(AllStatements) /\ Len(P3) = 10
      /\ P3[1] = Create(TaskTables)
      /\ P3[2] = Create(GoalTables)
      /\ P3[3] = Create(FeatureTables)
      /\ P3[4] = Create(ServiceTables)
      /\ P3[5] = Add("tasks", <<"title", "specification">>)
      /\ P3[6] = FillEach("untitled")
      /\ P3[7] = Create(SkillTables)
      /\ P3[8] = Add("skills", <<"monitoring_active_until", "post_activation_executions">>)
      /\ P3[9] = Create(GraphTables)
      /\ P3[10] = Create(IntakeTables)
  <2>1. /\ P2 \in Seq(AllStatements) /\ <<Create(GraphTables), Create(IntakeTables)>> \in Seq(AllStatements)
    BY <1>2, GraphIs
  <2>2. /\ P3 \in Seq(AllStatements) /\ Len(P3) = Len(P2) + Len(<<Create(GraphTables), Create(IntakeTables)>>)
        /\ \A i \in 1 .. Len(P2) : P3[i] = P2[i]
        /\ \A i \in 1 .. Len(<<Create(GraphTables),
            Create(IntakeTables)>>) : P3[Len(P2) + i] = (<<Create(GraphTables), Create(IntakeTables)>>)[i]
    <3> HIDE DEF P2
    <3> QED BY <2>1, JoinedSequences
  <2> HIDE DEF P3, P2
  <2>3. Len(P2) = 8 /\ Len(<<Create(GraphTables), Create(IntakeTables)>>) = 2
    BY <1>2, GraphIs
  <2>4. /\ P3 \in Seq(AllStatements) /\ Len(P3) = 10
        /\ \A i \in 1 .. 8 : P3[i] = P2[i]
        /\ \A i \in 1 .. 2 : P3[8 + i] = (<<Create(GraphTables), Create(IntakeTables)>>)[i]
    BY <2>2, <2>3
  <2>5. P3[9] = (<<Create(GraphTables), Create(IntakeTables)>>)[1] /\ P3[10] = (<<Create(GraphTables),
        Create(IntakeTables)>>)[2]
    <3>1. P3[8 + 1] = (<<Create(GraphTables), Create(IntakeTables)>>)[1] BY <2>4
    <3>2. P3[8 + 2] = (<<Create(GraphTables), Create(IntakeTables)>>)[2] BY <2>4
    <3> QED BY <3>1, <3>2
  <2>6. P3[1] = P2[1] /\ P3[2] = P2[2] /\ P3[3] = P2[3] /\ P3[4] = P2[4] /\ P3[5] = P2[5] /\ P3[6] = P2[6]
        /\ P3[7] = P2[7] /\ P3[8] = P2[8]
    BY <2>4
  <2> QED BY <1>2, GraphIs, <2>4, <2>5, <2>6
<1>4. /\ P4 \in Seq(AllStatements) /\ Len(P4) = 19
      /\ P4[1] = Create(TaskTables)
      /\ P4[2] = Create(GoalTables)
      /\ P4[3] = Create(FeatureTables)
      /\ P4[4] = Create(ServiceTables)
      /\ P4[5] = Add("tasks", <<"title", "specification">>)
      /\ P4[6] = FillEach("untitled")
      /\ P4[7] = Create(SkillTables)
      /\ P4[8] = Add("skills", <<"monitoring_active_until", "post_activation_executions">>)
      /\ P4[9] = Create(GraphTables)
      /\ P4[10] = Create(IntakeTables)
      /\ P4[11] = Add("tasks", <<"project_id">>)
      /\ P4[12] = Add("projects", <<"sync_state">>)
      /\ P4[13] = Add("goal_runs", <<"wait_reason">>)
      /\ P4[14] = Add("feature_plans", <<"revision">>)
      /\ P4[15] = FillAll("planned")
      /\ P4[16] = Add("feature_plan_tasks", <<"contract_json">>)
      /\ P4[17] = Add("features", <<"feature_plan_id">>)
      /\ P4[18] = Add("improvement_proposals", <<"fingerprint">>)
      /\ P4[19] = Add("goal_checkpoints", <<"objective">>)
  <2>1. /\ P3 \in Seq(AllStatements) /\ Later \in Seq(AllStatements)
    BY <1>3, LaterIs
  <2>2. /\ P4 \in Seq(AllStatements) /\ Len(P4) = Len(P3) + Len(Later)
        /\ \A i \in 1 .. Len(P3) : P4[i] = P3[i]
        /\ \A i \in 1 .. Len(Later) : P4[Len(P3) + i] = Later[i]
    <3> HIDE DEF P3
    <3> QED BY <2>1, JoinedSequences
  <2> HIDE DEF P4, P3
  <2>3. Len(P3) = 10 /\ Len(Later) = 9
    BY <1>3, LaterIs
  <2>4. /\ P4 \in Seq(AllStatements) /\ Len(P4) = 19
        /\ \A i \in 1 .. 10 : P4[i] = P3[i]
        /\ \A i \in 1 .. 9 : P4[10 + i] = Later[i]
    BY <2>2, <2>3
  <2>5. P4[11] = Later[1] /\ P4[12] = Later[2] /\ P4[13] = Later[3] /\ P4[14] = Later[4]
        /\ P4[15] = Later[5] /\ P4[16] = Later[6] /\ P4[17] = Later[7] /\ P4[18] = Later[8] /\ P4[19] = Later[9]
    <3>1. P4[10 + 1] = Later[1] BY <2>4
    <3>2. P4[10 + 2] = Later[2] BY <2>4
    <3>3. P4[10 + 3] = Later[3] BY <2>4
    <3>4. P4[10 + 4] = Later[4] BY <2>4
    <3>5. P4[10 + 5] = Later[5] BY <2>4
    <3>6. P4[10 + 6] = Later[6] BY <2>4
    <3>7. P4[10 + 7] = Later[7] BY <2>4
    <3>8. P4[10 + 8] = Later[8] BY <2>4
    <3>9. P4[10 + 9] = Later[9] BY <2>4
    <3> QED BY <3>1, <3>2, <3>3, <3>4, <3>5, <3>6, <3>7, <3>8, <3>9
  <2>6. P4[1] = P3[1] /\ P4[2] = P3[2] /\ P4[3] = P3[3] /\ P4[4] = P3[4] /\ P4[5] = P3[5] /\ P4[6] = P3[6]
        /\ P4[7] = P3[7] /\ P4[8] = P3[8] /\ P4[9] = P3[9] /\ P4[10] = P3[10]
    BY <2>4
  <2> QED BY <1>3, LaterIs, <2>4, <2>5, <2>6
<1>5. /\ P5 \in Seq(AllStatements) /\ Len(P5) = 21
      /\ P5[1] = Create(TaskTables)
      /\ P5[2] = Create(GoalTables)
      /\ P5[3] = Create(FeatureTables)
      /\ P5[4] = Create(ServiceTables)
      /\ P5[5] = Add("tasks", <<"title", "specification">>)
      /\ P5[6] = FillEach("untitled")
      /\ P5[7] = Create(SkillTables)
      /\ P5[8] = Add("skills", <<"monitoring_active_until", "post_activation_executions">>)
      /\ P5[9] = Create(GraphTables)
      /\ P5[10] = Create(IntakeTables)
      /\ P5[11] = Add("tasks", <<"project_id">>)
      /\ P5[12] = Add("projects", <<"sync_state">>)
      /\ P5[13] = Add("goal_runs", <<"wait_reason">>)
      /\ P5[14] = Add("feature_plans", <<"revision">>)
      /\ P5[15] = FillAll("planned")
      /\ P5[16] = Add("feature_plan_tasks", <<"contract_json">>)
      /\ P5[17] = Add("features", <<"feature_plan_id">>)
      /\ P5[18] = Add("improvement_proposals", <<"fingerprint">>)
      /\ P5[19] = Add("goal_checkpoints", <<"objective">>)
      /\ P5[20] = Index("features", "feature_plan_id")
      /\ P5[21] = Index("improvement_proposals", "fingerprint")
  <2>1. /\ P4 \in Seq(AllStatements) /\ Indexes \in Seq(AllStatements)
    BY <1>4, IndexesIs
  <2>2. /\ P5 \in Seq(AllStatements) /\ Len(P5) = Len(P4) + Len(Indexes)
        /\ \A i \in 1 .. Len(P4) : P5[i] = P4[i]
        /\ \A i \in 1 .. Len(Indexes) : P5[Len(P4) + i] = Indexes[i]
    <3> HIDE DEF P4
    <3> QED BY <2>1, JoinedSequences
  <2> HIDE DEF P5, P4
  <2>3. Len(P4) = 19 /\ Len(Indexes) = 2
    BY <1>4, IndexesIs
  <2>4. /\ P5 \in Seq(AllStatements) /\ Len(P5) = 21
        /\ \A i \in 1 .. 19 : P5[i] = P4[i]
        /\ \A i \in 1 .. 2 : P5[19 + i] = Indexes[i]
    BY <2>2, <2>3
  <2>5. P5[20] = Indexes[1] /\ P5[21] = Indexes[2]
    <3>1. P5[19 + 1] = Indexes[1] BY <2>4
    <3>2. P5[19 + 2] = Indexes[2] BY <2>4
    <3> QED BY <3>1, <3>2
  <2>6. P5[1] = P4[1] /\ P5[2] = P4[2] /\ P5[3] = P4[3] /\ P5[4] = P4[4] /\ P5[5] = P4[5] /\ P5[6] = P4[6]
        /\ P5[7] = P4[7] /\ P5[8] = P4[8] /\ P5[9] = P4[9] /\ P5[10] = P4[10] /\ P5[11] = P4[11]
            /\ P5[12] = P4[12] /\ P5[13] = P4[13] /\ P5[14] = P4[14] /\ P5[15] = P4[15] /\ P5[16] = P4[16]
                /\ P5[17] = P4[17] /\ P5[18] = P4[18] /\ P5[19] = P4[19]
    BY <2>4
  <2> QED BY <1>4, IndexesIs, <2>4, <2>5, <2>6
<1>6. /\ P6 \in Seq(AllStatements) /\ Len(P6) = 26
      /\ P6[1] = Create(TaskTables)
      /\ P6[2] = Create(GoalTables)
      /\ P6[3] = Create(FeatureTables)
      /\ P6[4] = Create(ServiceTables)
      /\ P6[5] = Add("tasks", <<"title", "specification">>)
      /\ P6[6] = FillEach("untitled")
      /\ P6[7] = Create(SkillTables)
      /\ P6[8] = Add("skills", <<"monitoring_active_until", "post_activation_executions">>)
      /\ P6[9] = Create(GraphTables)
      /\ P6[10] = Create(IntakeTables)
      /\ P6[11] = Add("tasks", <<"project_id">>)
      /\ P6[12] = Add("projects", <<"sync_state">>)
      /\ P6[13] = Add("goal_runs", <<"wait_reason">>)
      /\ P6[14] = Add("feature_plans", <<"revision">>)
      /\ P6[15] = FillAll("planned")
      /\ P6[16] = Add("feature_plan_tasks", <<"contract_json">>)
      /\ P6[17] = Add("features", <<"feature_plan_id">>)
      /\ P6[18] = Add("improvement_proposals", <<"fingerprint">>)
      /\ P6[19] = Add("goal_checkpoints", <<"objective">>)
      /\ P6[20] = Index("features", "feature_plan_id")
      /\ P6[21] = Index("improvement_proposals", "fingerprint")
      /\ P6[22] = Create(PolicyTables)
      /\ P6[23] = AddToOld("provider_connections", <<"connection_source">>)
      /\ P6[24] = DeleteFromOld("legacy")
      /\ P6[25] = TryToAdd("provider_controls", <<"model", "effort">>)
      /\ P6[26] = TryToAdd("provider_capability_routing", <<"preferred_model", "preferred_effort">>)
  <2>1. /\ P5 \in Seq(AllStatements) /\ PolicyColumns \in Seq(AllStatements)
    BY <1>5, PolicyIs
  <2>2. /\ P6 \in Seq(AllStatements) /\ Len(P6) = Len(P5) + Len(PolicyColumns)
        /\ \A i \in 1 .. Len(P5) : P6[i] = P5[i]
        /\ \A i \in 1 .. Len(PolicyColumns) : P6[Len(P5) + i] = PolicyColumns[i]
    <3> HIDE DEF P5
    <3> QED BY <2>1, JoinedSequences
  <2> HIDE DEF P6, P5
  <2>3. Len(P5) = 21 /\ Len(PolicyColumns) = 5
    BY <1>5, PolicyIs
  <2>4. /\ P6 \in Seq(AllStatements) /\ Len(P6) = 26
        /\ \A i \in 1 .. 21 : P6[i] = P5[i]
        /\ \A i \in 1 .. 5 : P6[21 + i] = PolicyColumns[i]
    BY <2>2, <2>3
  <2>5. P6[22] = PolicyColumns[1] /\ P6[23] = PolicyColumns[2] /\ P6[24] = PolicyColumns[3]
        /\ P6[25] = PolicyColumns[4] /\ P6[26] = PolicyColumns[5]
    <3>1. P6[21 + 1] = PolicyColumns[1] BY <2>4
    <3>2. P6[21 + 2] = PolicyColumns[2] BY <2>4
    <3>3. P6[21 + 3] = PolicyColumns[3] BY <2>4
    <3>4. P6[21 + 4] = PolicyColumns[4] BY <2>4
    <3>5. P6[21 + 5] = PolicyColumns[5] BY <2>4
    <3> QED BY <3>1, <3>2, <3>3, <3>4, <3>5
  <2>6. P6[1] = P5[1] /\ P6[2] = P5[2] /\ P6[3] = P5[3] /\ P6[4] = P5[4] /\ P6[5] = P5[5] /\ P6[6] = P5[6]
        /\ P6[7] = P5[7] /\ P6[8] = P5[8] /\ P6[9] = P5[9] /\ P6[10] = P5[10] /\ P6[11] = P5[11]
            /\ P6[12] = P5[12] /\ P6[13] = P5[13] /\ P6[14] = P5[14] /\ P6[15] = P5[15] /\ P6[16] = P5[16]
                /\ P6[17] = P5[17] /\ P6[18] = P5[18] /\ P6[19] = P5[19] /\ P6[20] = P5[20] /\ P6[21] = P5[21]
    BY <2>4
  <2> QED BY <1>5, PolicyIs, <2>4, <2>5, <2>6
<1>7. /\ P7 \in Seq(AllStatements) /\ Len(P7) = 27
      /\ P7[1] = Create(TaskTables)
      /\ P7[2] = Create(GoalTables)
      /\ P7[3] = Create(FeatureTables)
      /\ P7[4] = Create(ServiceTables)
      /\ P7[5] = Add("tasks", <<"title", "specification">>)
      /\ P7[6] = FillEach("untitled")
      /\ P7[7] = Create(SkillTables)
      /\ P7[8] = Add("skills", <<"monitoring_active_until", "post_activation_executions">>)
      /\ P7[9] = Create(GraphTables)
      /\ P7[10] = Create(IntakeTables)
      /\ P7[11] = Add("tasks", <<"project_id">>)
      /\ P7[12] = Add("projects", <<"sync_state">>)
      /\ P7[13] = Add("goal_runs", <<"wait_reason">>)
      /\ P7[14] = Add("feature_plans", <<"revision">>)
      /\ P7[15] = FillAll("planned")
      /\ P7[16] = Add("feature_plan_tasks", <<"contract_json">>)
      /\ P7[17] = Add("features", <<"feature_plan_id">>)
      /\ P7[18] = Add("improvement_proposals", <<"fingerprint">>)
      /\ P7[19] = Add("goal_checkpoints", <<"objective">>)
      /\ P7[20] = Index("features", "feature_plan_id")
      /\ P7[21] = Index("improvement_proposals", "fingerprint")
      /\ P7[22] = Create(PolicyTables)
      /\ P7[23] = AddToOld("provider_connections", <<"connection_source">>)
      /\ P7[24] = DeleteFromOld("legacy")
      /\ P7[25] = TryToAdd("provider_controls", <<"model", "effort">>)
      /\ P7[26] = TryToAdd("provider_capability_routing", <<"preferred_model", "preferred_effort">>)
      /\ P7[27] = Create(IntakeTables)
  <2>1. /\ P6 \in Seq(AllStatements) /\ <<Create(IntakeTables)>> \in Seq(AllStatements)
    BY <1>6, AgainIs
  <2>2. /\ P7 \in Seq(AllStatements) /\ Len(P7) = Len(P6) + Len(<<Create(IntakeTables)>>)
        /\ \A i \in 1 .. Len(P6) : P7[i] = P6[i]
        /\ \A i \in 1 .. Len(<<Create(IntakeTables)>>) : P7[Len(P6) + i] = (<<Create(IntakeTables)>>)[i]
    <3> HIDE DEF P6
    <3> QED BY <2>1, JoinedSequences
  <2> HIDE DEF P7, P6
  <2>3. Len(P6) = 26 /\ Len(<<Create(IntakeTables)>>) = 1
    BY <1>6, AgainIs
  <2>4. /\ P7 \in Seq(AllStatements) /\ Len(P7) = 27
        /\ \A i \in 1 .. 26 : P7[i] = P6[i]
        /\ \A i \in 1 .. 1 : P7[26 + i] = (<<Create(IntakeTables)>>)[i]
    BY <2>2, <2>3
  <2>5. P7[27] = (<<Create(IntakeTables)>>)[1]
    <3>1. P7[26 + 1] = (<<Create(IntakeTables)>>)[1] BY <2>4
    <3> QED BY <3>1
  <2>6. P7[1] = P6[1] /\ P7[2] = P6[2] /\ P7[3] = P6[3] /\ P7[4] = P6[4] /\ P7[5] = P6[5] /\ P7[6] = P6[6]
        /\ P7[7] = P6[7] /\ P7[8] = P6[8] /\ P7[9] = P6[9] /\ P7[10] = P6[10] /\ P7[11] = P6[11]
            /\ P7[12] = P6[12] /\ P7[13] = P6[13] /\ P7[14] = P6[14] /\ P7[15] = P6[15] /\ P7[16] = P6[16]
                /\ P7[17] = P6[17] /\ P7[18] = P6[18] /\ P7[19] = P6[19] /\ P7[20] = P6[20]
                    /\ P7[21] = P6[21] /\ P7[22] = P6[22] /\ P7[23] = P6[23] /\ P7[24] = P6[24]
                        /\ P7[25] = P6[25] /\ P7[26] = P6[26]
    BY <2>4
  <2> QED BY <1>6, AgainIs, <2>4, <2>5, <2>6
<1>8. /\ P8 \in Seq(AllStatements) /\ Len(P8) = 32
      /\ P8[1] = Create(TaskTables)
      /\ P8[2] = Create(GoalTables)
      /\ P8[3] = Create(FeatureTables)
      /\ P8[4] = Create(ServiceTables)
      /\ P8[5] = Add("tasks", <<"title", "specification">>)
      /\ P8[6] = FillEach("untitled")
      /\ P8[7] = Create(SkillTables)
      /\ P8[8] = Add("skills", <<"monitoring_active_until", "post_activation_executions">>)
      /\ P8[9] = Create(GraphTables)
      /\ P8[10] = Create(IntakeTables)
      /\ P8[11] = Add("tasks", <<"project_id">>)
      /\ P8[12] = Add("projects", <<"sync_state">>)
      /\ P8[13] = Add("goal_runs", <<"wait_reason">>)
      /\ P8[14] = Add("feature_plans", <<"revision">>)
      /\ P8[15] = FillAll("planned")
      /\ P8[16] = Add("feature_plan_tasks", <<"contract_json">>)
      /\ P8[17] = Add("features", <<"feature_plan_id">>)
      /\ P8[18] = Add("improvement_proposals", <<"fingerprint">>)
      /\ P8[19] = Add("goal_checkpoints", <<"objective">>)
      /\ P8[20] = Index("features", "feature_plan_id")
      /\ P8[21] = Index("improvement_proposals", "fingerprint")
      /\ P8[22] = Create(PolicyTables)
      /\ P8[23] = AddToOld("provider_connections", <<"connection_source">>)
      /\ P8[24] = DeleteFromOld("legacy")
      /\ P8[25] = TryToAdd("provider_controls", <<"model", "effort">>)
      /\ P8[26] = TryToAdd("provider_capability_routing", <<"preferred_model", "preferred_effort">>)
      /\ P8[27] = Create(IntakeTables)
      /\ P8[28] = Create(ChatTables)
      /\ P8[29] = Add("operational_chat_threads", <<"access_mode", "provider_id">>)
      /\ P8[30] = Add("operational_chat_messages", <<"thread_id", "provider_id">>)
      /\ P8[31] = FillEach("unthreaded")
      /\ P8[32] = Index("operational_chat_messages", "thread_id")
  <2>1. /\ P7 \in Seq(AllStatements) /\ Threads \in Seq(AllStatements)
    BY <1>7, ThreadsIs
  <2>2. /\ P8 \in Seq(AllStatements) /\ Len(P8) = Len(P7) + Len(Threads)
        /\ \A i \in 1 .. Len(P7) : P8[i] = P7[i]
        /\ \A i \in 1 .. Len(Threads) : P8[Len(P7) + i] = Threads[i]
    <3> HIDE DEF P7
    <3> QED BY <2>1, JoinedSequences
  <2> HIDE DEF P8, P7
  <2>3. Len(P7) = 27 /\ Len(Threads) = 5
    BY <1>7, ThreadsIs
  <2>4. /\ P8 \in Seq(AllStatements) /\ Len(P8) = 32
        /\ \A i \in 1 .. 27 : P8[i] = P7[i]
        /\ \A i \in 1 .. 5 : P8[27 + i] = Threads[i]
    BY <2>2, <2>3
  <2>5. P8[28] = Threads[1] /\ P8[29] = Threads[2] /\ P8[30] = Threads[3] /\ P8[31] = Threads[4]
        /\ P8[32] = Threads[5]
    <3>1. P8[27 + 1] = Threads[1] BY <2>4
    <3>2. P8[27 + 2] = Threads[2] BY <2>4
    <3>3. P8[27 + 3] = Threads[3] BY <2>4
    <3>4. P8[27 + 4] = Threads[4] BY <2>4
    <3>5. P8[27 + 5] = Threads[5] BY <2>4
    <3> QED BY <3>1, <3>2, <3>3, <3>4, <3>5
  <2>6. P8[1] = P7[1] /\ P8[2] = P7[2] /\ P8[3] = P7[3] /\ P8[4] = P7[4] /\ P8[5] = P7[5] /\ P8[6] = P7[6]
        /\ P8[7] = P7[7] /\ P8[8] = P7[8] /\ P8[9] = P7[9] /\ P8[10] = P7[10] /\ P8[11] = P7[11]
            /\ P8[12] = P7[12] /\ P8[13] = P7[13] /\ P8[14] = P7[14] /\ P8[15] = P7[15] /\ P8[16] = P7[16]
                /\ P8[17] = P7[17] /\ P8[18] = P7[18] /\ P8[19] = P7[19] /\ P8[20] = P7[20]
                    /\ P8[21] = P7[21] /\ P8[22] = P7[22] /\ P8[23] = P7[23] /\ P8[24] = P7[24]
                        /\ P8[25] = P7[25] /\ P8[26] = P7[26] /\ P8[27] = P7[27]
    BY <2>4
  <2> QED BY <1>7, ThreadsIs, <2>4, <2>5, <2>6
<1> HIDE DEF P8
<1> QED BY <1>0, <1>8

\* The same with the three fields of each statement, and then field by field.
LEMMA StatementSays ==
  /\ Statements[1] = [does |-> "create", on |-> TaskTables, cols |-> <<>>]
  /\ Statements[2] = [does |-> "create", on |-> GoalTables, cols |-> <<>>]
  /\ Statements[3] = [does |-> "create", on |-> FeatureTables, cols |-> <<>>]
  /\ Statements[4] = [does |-> "create", on |-> ServiceTables, cols |-> <<>>]
  /\ Statements[5] = [does |-> "add", on |-> {"tasks"}, cols |-> <<"title", "specification">>]
  /\ Statements[6] = [does |-> "fillEach", on |-> {"untitled"}, cols |-> <<>>]
  /\ Statements[7] = [does |-> "create", on |-> SkillTables, cols |-> <<>>]
  /\ Statements[8] = [does |-> "add", on |-> {"skills"}, cols |-> <<"monitoring_active_until",
      "post_activation_executions">>]
  /\ Statements[9] = [does |-> "create", on |-> GraphTables, cols |-> <<>>]
  /\ Statements[10] = [does |-> "create", on |-> IntakeTables, cols |-> <<>>]
  /\ Statements[11] = [does |-> "add", on |-> {"tasks"}, cols |-> <<"project_id">>]
  /\ Statements[12] = [does |-> "add", on |-> {"projects"}, cols |-> <<"sync_state">>]
  /\ Statements[13] = [does |-> "add", on |-> {"goal_runs"}, cols |-> <<"wait_reason">>]
  /\ Statements[14] = [does |-> "add", on |-> {"feature_plans"}, cols |-> <<"revision">>]
  /\ Statements[15] = [does |-> "fillAll", on |-> {"planned"}, cols |-> <<>>]
  /\ Statements[16] = [does |-> "add", on |-> {"feature_plan_tasks"}, cols |-> <<"contract_json">>]
  /\ Statements[17] = [does |-> "add", on |-> {"features"}, cols |-> <<"feature_plan_id">>]
  /\ Statements[18] = [does |-> "add", on |-> {"improvement_proposals"}, cols |-> <<"fingerprint">>]
  /\ Statements[19] = [does |-> "add", on |-> {"goal_checkpoints"}, cols |-> <<"objective">>]
  /\ Statements[20] = [does |-> "index", on |-> {"features"}, cols |-> <<"feature_plan_id">>]
  /\ Statements[21] = [does |-> "index", on |-> {"improvement_proposals"}, cols |-> <<"fingerprint">>]
  /\ Statements[22] = [does |-> "create", on |-> PolicyTables, cols |-> <<>>]
  /\ Statements[23] = [does |-> "addToOld", on |-> {"provider_connections"}, cols |-> <<"connection_source">>]
  /\ Statements[24] = [does |-> "deleteFromOld", on |-> {"legacy"}, cols |-> <<>>]
  /\ Statements[25] = [does |-> "try", on |-> {"provider_controls"}, cols |-> <<"model", "effort">>]
  /\ Statements[26] = [does |-> "try", on |-> {"provider_capability_routing"}, cols |-> <<"preferred_model",
      "preferred_effort">>]
  /\ Statements[27] = [does |-> "create", on |-> IntakeTables, cols |-> <<>>]
  /\ Statements[28] = [does |-> "create", on |-> ChatTables, cols |-> <<>>]
  /\ Statements[29] = [does |-> "add", on |-> {"operational_chat_threads"}, cols |-> <<"access_mode",
      "provider_id">>]
  /\ Statements[30] = [does |-> "add", on |-> {"operational_chat_messages"}, cols |-> <<"thread_id",
      "provider_id">>]
  /\ Statements[31] = [does |-> "fillEach", on |-> {"unthreaded"}, cols |-> <<>>]
  /\ Statements[32] = [does |-> "index", on |-> {"operational_chat_messages"}, cols |-> <<"thread_id">>]
BY StatementsAre DEF Create, Add, TryToAdd, AddToOld, Index, FillEach, FillAll, DeleteFromOld, Statement

LEMMA DoesAre ==
  /\ Statements[1].does = "create"
  /\ Statements[2].does = "create"
  /\ Statements[3].does = "create"
  /\ Statements[4].does = "create"
  /\ Statements[5].does = "add"
  /\ Statements[6].does = "fillEach"
  /\ Statements[7].does = "create"
  /\ Statements[8].does = "add"
  /\ Statements[9].does = "create"
  /\ Statements[10].does = "create"
  /\ Statements[11].does = "add"
  /\ Statements[12].does = "add"
  /\ Statements[13].does = "add"
  /\ Statements[14].does = "add"
  /\ Statements[15].does = "fillAll"
  /\ Statements[16].does = "add"
  /\ Statements[17].does = "add"
  /\ Statements[18].does = "add"
  /\ Statements[19].does = "add"
  /\ Statements[20].does = "index"
  /\ Statements[21].does = "index"
  /\ Statements[22].does = "create"
  /\ Statements[23].does = "addToOld"
  /\ Statements[24].does = "deleteFromOld"
  /\ Statements[25].does = "try"
  /\ Statements[26].does = "try"
  /\ Statements[27].does = "create"
  /\ Statements[28].does = "create"
  /\ Statements[29].does = "add"
  /\ Statements[30].does = "add"
  /\ Statements[31].does = "fillEach"
  /\ Statements[32].does = "index"
<1>1. Statements[1].does = "create" BY StatementSays
<1>2. Statements[2].does = "create" BY StatementSays
<1>3. Statements[3].does = "create" BY StatementSays
<1>4. Statements[4].does = "create" BY StatementSays
<1>5. Statements[5].does = "add" BY StatementSays
<1>6. Statements[6].does = "fillEach" BY StatementSays
<1>7. Statements[7].does = "create" BY StatementSays
<1>8. Statements[8].does = "add" BY StatementSays
<1>9. Statements[9].does = "create" BY StatementSays
<1>10. Statements[10].does = "create" BY StatementSays
<1>11. Statements[11].does = "add" BY StatementSays
<1>12. Statements[12].does = "add" BY StatementSays
<1>13. Statements[13].does = "add" BY StatementSays
<1>14. Statements[14].does = "add" BY StatementSays
<1>15. Statements[15].does = "fillAll" BY StatementSays
<1>16. Statements[16].does = "add" BY StatementSays
<1>17. Statements[17].does = "add" BY StatementSays
<1>18. Statements[18].does = "add" BY StatementSays
<1>19. Statements[19].does = "add" BY StatementSays
<1>20. Statements[20].does = "index" BY StatementSays
<1>21. Statements[21].does = "index" BY StatementSays
<1>22. Statements[22].does = "create" BY StatementSays
<1>23. Statements[23].does = "addToOld" BY StatementSays
<1>24. Statements[24].does = "deleteFromOld" BY StatementSays
<1>25. Statements[25].does = "try" BY StatementSays
<1>26. Statements[26].does = "try" BY StatementSays
<1>27. Statements[27].does = "create" BY StatementSays
<1>28. Statements[28].does = "create" BY StatementSays
<1>29. Statements[29].does = "add" BY StatementSays
<1>30. Statements[30].does = "add" BY StatementSays
<1>31. Statements[31].does = "fillEach" BY StatementSays
<1>32. Statements[32].does = "index" BY StatementSays
<1> QED BY <1>1, <1>2, <1>3, <1>4, <1>5, <1>6, <1>7, <1>8, <1>9, <1>10, <1>11, <1>12, <1>13, <1>14, <1>15,
      <1>16, <1>17, <1>18, <1>19, <1>20, <1>21, <1>22, <1>23, <1>24, <1>25, <1>26, <1>27, <1>28, <1>29,
            <1>30, <1>31, <1>32

LEMMA OnAre ==
  /\ Statements[1].on = TaskTables
  /\ Statements[2].on = GoalTables
  /\ Statements[3].on = FeatureTables
  /\ Statements[4].on = ServiceTables
  /\ Statements[5].on = {"tasks"}
  /\ Statements[6].on = {"untitled"}
  /\ Statements[7].on = SkillTables
  /\ Statements[8].on = {"skills"}
  /\ Statements[9].on = GraphTables
  /\ Statements[10].on = IntakeTables
  /\ Statements[11].on = {"tasks"}
  /\ Statements[12].on = {"projects"}
  /\ Statements[13].on = {"goal_runs"}
  /\ Statements[14].on = {"feature_plans"}
  /\ Statements[15].on = {"planned"}
  /\ Statements[16].on = {"feature_plan_tasks"}
  /\ Statements[17].on = {"features"}
  /\ Statements[18].on = {"improvement_proposals"}
  /\ Statements[19].on = {"goal_checkpoints"}
  /\ Statements[20].on = {"features"}
  /\ Statements[21].on = {"improvement_proposals"}
  /\ Statements[22].on = PolicyTables
  /\ Statements[23].on = {"provider_connections"}
  /\ Statements[24].on = {"legacy"}
  /\ Statements[25].on = {"provider_controls"}
  /\ Statements[26].on = {"provider_capability_routing"}
  /\ Statements[27].on = IntakeTables
  /\ Statements[28].on = ChatTables
  /\ Statements[29].on = {"operational_chat_threads"}
  /\ Statements[30].on = {"operational_chat_messages"}
  /\ Statements[31].on = {"unthreaded"}
  /\ Statements[32].on = {"operational_chat_messages"}
<1>1. Statements[1].on = TaskTables BY StatementSays
<1>2. Statements[2].on = GoalTables BY StatementSays
<1>3. Statements[3].on = FeatureTables BY StatementSays
<1>4. Statements[4].on = ServiceTables BY StatementSays
<1>5. Statements[5].on = {"tasks"} BY StatementSays
<1>6. Statements[6].on = {"untitled"} BY StatementSays
<1>7. Statements[7].on = SkillTables BY StatementSays
<1>8. Statements[8].on = {"skills"} BY StatementSays
<1>9. Statements[9].on = GraphTables BY StatementSays
<1>10. Statements[10].on = IntakeTables BY StatementSays
<1>11. Statements[11].on = {"tasks"} BY StatementSays
<1>12. Statements[12].on = {"projects"} BY StatementSays
<1>13. Statements[13].on = {"goal_runs"} BY StatementSays
<1>14. Statements[14].on = {"feature_plans"} BY StatementSays
<1>15. Statements[15].on = {"planned"} BY StatementSays
<1>16. Statements[16].on = {"feature_plan_tasks"} BY StatementSays
<1>17. Statements[17].on = {"features"} BY StatementSays
<1>18. Statements[18].on = {"improvement_proposals"} BY StatementSays
<1>19. Statements[19].on = {"goal_checkpoints"} BY StatementSays
<1>20. Statements[20].on = {"features"} BY StatementSays
<1>21. Statements[21].on = {"improvement_proposals"} BY StatementSays
<1>22. Statements[22].on = PolicyTables BY StatementSays
<1>23. Statements[23].on = {"provider_connections"} BY StatementSays
<1>24. Statements[24].on = {"legacy"} BY StatementSays
<1>25. Statements[25].on = {"provider_controls"} BY StatementSays
<1>26. Statements[26].on = {"provider_capability_routing"} BY StatementSays
<1>27. Statements[27].on = IntakeTables BY StatementSays
<1>28. Statements[28].on = ChatTables BY StatementSays
<1>29. Statements[29].on = {"operational_chat_threads"} BY StatementSays
<1>30. Statements[30].on = {"operational_chat_messages"} BY StatementSays
<1>31. Statements[31].on = {"unthreaded"} BY StatementSays
<1>32. Statements[32].on = {"operational_chat_messages"} BY StatementSays
<1> QED BY <1>1, <1>2, <1>3, <1>4, <1>5, <1>6, <1>7, <1>8, <1>9, <1>10, <1>11, <1>12, <1>13, <1>14, <1>15,
      <1>16, <1>17, <1>18, <1>19, <1>20, <1>21, <1>22, <1>23, <1>24, <1>25, <1>26, <1>27, <1>28, <1>29,
            <1>30, <1>31, <1>32

LEMMA ColsAre ==
  /\ Statements[1].cols = <<>>
  /\ Statements[2].cols = <<>>
  /\ Statements[3].cols = <<>>
  /\ Statements[4].cols = <<>>
  /\ Statements[5].cols = <<"title", "specification">>
  /\ Statements[6].cols = <<>>
  /\ Statements[7].cols = <<>>
  /\ Statements[8].cols = <<"monitoring_active_until", "post_activation_executions">>
  /\ Statements[9].cols = <<>>
  /\ Statements[10].cols = <<>>
  /\ Statements[11].cols = <<"project_id">>
  /\ Statements[12].cols = <<"sync_state">>
  /\ Statements[13].cols = <<"wait_reason">>
  /\ Statements[14].cols = <<"revision">>
  /\ Statements[15].cols = <<>>
  /\ Statements[16].cols = <<"contract_json">>
  /\ Statements[17].cols = <<"feature_plan_id">>
  /\ Statements[18].cols = <<"fingerprint">>
  /\ Statements[19].cols = <<"objective">>
  /\ Statements[20].cols = <<"feature_plan_id">>
  /\ Statements[21].cols = <<"fingerprint">>
  /\ Statements[22].cols = <<>>
  /\ Statements[23].cols = <<"connection_source">>
  /\ Statements[24].cols = <<>>
  /\ Statements[25].cols = <<"model", "effort">>
  /\ Statements[26].cols = <<"preferred_model", "preferred_effort">>
  /\ Statements[27].cols = <<>>
  /\ Statements[28].cols = <<>>
  /\ Statements[29].cols = <<"access_mode", "provider_id">>
  /\ Statements[30].cols = <<"thread_id", "provider_id">>
  /\ Statements[31].cols = <<>>
  /\ Statements[32].cols = <<"thread_id">>
<1>1. Statements[1].cols = <<>> BY StatementSays
<1>2. Statements[2].cols = <<>> BY StatementSays
<1>3. Statements[3].cols = <<>> BY StatementSays
<1>4. Statements[4].cols = <<>> BY StatementSays
<1>5. Statements[5].cols = <<"title", "specification">> BY StatementSays
<1>6. Statements[6].cols = <<>> BY StatementSays
<1>7. Statements[7].cols = <<>> BY StatementSays
<1>8. Statements[8].cols = <<"monitoring_active_until", "post_activation_executions">> BY StatementSays
<1>9. Statements[9].cols = <<>> BY StatementSays
<1>10. Statements[10].cols = <<>> BY StatementSays
<1>11. Statements[11].cols = <<"project_id">> BY StatementSays
<1>12. Statements[12].cols = <<"sync_state">> BY StatementSays
<1>13. Statements[13].cols = <<"wait_reason">> BY StatementSays
<1>14. Statements[14].cols = <<"revision">> BY StatementSays
<1>15. Statements[15].cols = <<>> BY StatementSays
<1>16. Statements[16].cols = <<"contract_json">> BY StatementSays
<1>17. Statements[17].cols = <<"feature_plan_id">> BY StatementSays
<1>18. Statements[18].cols = <<"fingerprint">> BY StatementSays
<1>19. Statements[19].cols = <<"objective">> BY StatementSays
<1>20. Statements[20].cols = <<"feature_plan_id">> BY StatementSays
<1>21. Statements[21].cols = <<"fingerprint">> BY StatementSays
<1>22. Statements[22].cols = <<>> BY StatementSays
<1>23. Statements[23].cols = <<"connection_source">> BY StatementSays
<1>24. Statements[24].cols = <<>> BY StatementSays
<1>25. Statements[25].cols = <<"model", "effort">> BY StatementSays
<1>26. Statements[26].cols = <<"preferred_model", "preferred_effort">> BY StatementSays
<1>27. Statements[27].cols = <<>> BY StatementSays
<1>28. Statements[28].cols = <<>> BY StatementSays
<1>29. Statements[29].cols = <<"access_mode", "provider_id">> BY StatementSays
<1>30. Statements[30].cols = <<"thread_id", "provider_id">> BY StatementSays
<1>31. Statements[31].cols = <<>> BY StatementSays
<1>32. Statements[32].cols = <<"thread_id">> BY StatementSays
<1> QED BY <1>1, <1>2, <1>3, <1>4, <1>5, <1>6, <1>7, <1>8, <1>9, <1>10, <1>11, <1>12, <1>13, <1>14, <1>15,
      <1>16, <1>17, <1>18, <1>19, <1>20, <1>21, <1>22, <1>23, <1>24, <1>25, <1>26, <1>27, <1>28, <1>29,
            <1>30, <1>31, <1>32

Filling == {"fillEach", "fillAll", "deleteFromOld"}
SourceColumn == <<"provider_connections", "connection_source">>

\* A column or two, which are different.
OneOrTwo(cols) == \/ \E a : cols = <<a>>
                  \/ \E a, b : a # b /\ cols = <<a, b>>

\* What the proof needs of the list of statements: the tables a statement names are
\* created before it, an index comes after its column, what is done to old
\* connections comes after the look whether they are old, and every kind of old row
\* has a statement that treats it.
NamesCreated(i) == \E j \in 1 .. i - 1 :
                     Statements[j].does = "create" /\ Statements[i].on \subseteq Statements[j].on
IndexAfterColumn(i) ==
  \E j \in 1 .. i - 1 : /\ Statements[j].does = "add" /\ Statements[j].on = Statements[i].on
                        /\ \E k \in DOMAIN Statements[j].cols : Statements[j].cols[k] = Statements[i].cols[1]
AddInOrder(i) == (\E t : Statements[i].on = {t}) /\ NamesCreated(i) /\ OneOrTwo(Statements[i].cols)
LooksAtOld(i) == \E j \in 1 .. i - 1 : Statements[j].does = "create" /\ SourceColumn[1] \in Statements[j].on

StatementsInOrder ==
  \A i \in 1 .. 32 :
    /\ Statements[i].does \in {"create", "index"} \cup Adding \cup Filling
    /\ Statements[i].does \in Adding \cup {"index"} => AddInOrder(i)
    /\ Statements[i].does = "index" => IndexAfterColumn(i)
    /\ Statements[i].does = "addToOld" =>
         Statements[i].on = {SourceColumn[1]} /\ Statements[i].cols = <<SourceColumn[2]>> /\ LooksAtOld(i)
    /\ Statements[i].does = "deleteFromOld" => Statements[i].on = {"legacy"} /\ LooksAtOld(i)

EachKindFilled ==
  \A kind \in Kinds : \E i \in 1 .. 32 : Statements[i].does \in Filling /\ kind \in Statements[i].on

LEMMA IndexIsOneOf == ASSUME NEW i \in 1 .. 32 PROVE
  \/ i = 1 \/ i = 2 \/ i = 3 \/ i = 4 \/ i = 5 \/ i = 6 \/ i = 7 \/ i = 8 \/ i = 9 \/ i = 10 \/ i = 11
  \/ i = 12 \/ i = 13 \/ i = 14 \/ i = 15 \/ i = 16 \/ i = 17 \/ i = 18 \/ i = 19 \/ i = 20 \/ i = 21
  \/ i = 22 \/ i = 23 \/ i = 24 \/ i = 25 \/ i = 26 \/ i = 27 \/ i = 28 \/ i = 29 \/ i = 30 \/ i = 31 \/ i = 32
OBVIOUS

LEMMA KindOfStatement ==
  ASSUME NEW i \in 1 .. 32
  PROVE  /\ Statements[i].does \in {"create", "index"} \cup Adding \cup Filling
         /\ Statements[i].does \in Adding \cup {"index"} =>
              i \in {5, 8, 11, 12, 13, 14, 16, 17, 18, 19, 20, 21, 23, 25, 26, 29, 30, 32}
         /\ Statements[i].does = "index" => i = 20 \/ i = 21 \/ i = 32
         /\ Statements[i].does = "addToOld" => i = 23
         /\ Statements[i].does = "deleteFromOld" => i = 24
<1>1. Statements[i].does \in {"create", "index"} \cup Adding \cup Filling
  BY IndexIsOneOf, DoesAre DEF Adding, Filling
<1>2. Statements[i].does \in Adding \cup {"index"} =>
        i \in {5, 8, 11, 12, 13, 14, 16, 17, 18, 19, 20, 21, 23, 25, 26, 29, 30, 32}
  BY IndexIsOneOf, DoesAre DEF Adding
<1>3. Statements[i].does = "index" => i = 20 \/ i = 21 \/ i = 32
  BY IndexIsOneOf, DoesAre
<1>4. Statements[i].does = "addToOld" => i = 23
  BY IndexIsOneOf, DoesAre
<1>5. Statements[i].does = "deleteFromOld" => i = 24
  BY IndexIsOneOf, DoesAre
<1> QED BY <1>1, <1>2, <1>3, <1>4, <1>5

\* Where the tables of the statements that add a column or an index are created.
LEMMA TablesAreCreated ==
  /\ {"tasks", "projects"} \subseteq TaskTables
  /\ {"goal_runs", "improvement_proposals", "goal_checkpoints"} \subseteq GoalTables
  /\ {"feature_plans", "feature_plan_tasks", "features"} \subseteq FeatureTables
  /\ {"skills"} \subseteq SkillTables
  /\ {"provider_connections", "provider_controls", "provider_capability_routing"} \subseteq PolicyTables
  /\ {"operational_chat_threads", "operational_chat_messages"} \subseteq ChatTables
BY DEF TaskTables, GoalTables, FeatureTables, SkillTables, PolicyTables, ChatTables

\* A statement that adds a column or an index names a table created before.
LEMMA AddsAreInOrder ==
  \A i \in {5, 8, 11, 12, 13, 14, 16, 17, 18, 19, 20, 21, 23, 25, 26, 29, 30, 32} :
    AddInOrder(i)
<1>5. AddInOrder(5)
  <2>1. Statements[5].on = {"tasks"} /\ Statements[1].on = TaskTables BY OnAre
  <2>2. Statements[1].does = "create" BY DoesAre
  <2>3. "tasks" \in TaskTables /\ 1 \in 1 .. 5 - 1 BY TablesAreCreated
  <2>4. Statements[5].cols = <<"title", "specification">> BY ColsAre
  <2>5. OneOrTwo(Statements[5].cols) BY <2>4 DEF OneOrTwo
  <2> QED BY <2>1, <2>2, <2>3, <2>5 DEF NamesCreated, AddInOrder
<1>8. AddInOrder(8)
  <2>1. Statements[8].on = {"skills"} /\ Statements[7].on = SkillTables BY OnAre
  <2>2. Statements[7].does = "create" BY DoesAre
  <2>3. "skills" \in SkillTables /\ 7 \in 1 .. 8 - 1 BY TablesAreCreated
  <2>4. Statements[8].cols = <<"monitoring_active_until", "post_activation_executions">> BY ColsAre
  <2>5. OneOrTwo(Statements[8].cols) BY <2>4 DEF OneOrTwo
  <2> QED BY <2>1, <2>2, <2>3, <2>5 DEF NamesCreated, AddInOrder
<1>11. AddInOrder(11)
  <2>1. Statements[11].on = {"tasks"} /\ Statements[1].on = TaskTables BY OnAre
  <2>2. Statements[1].does = "create" BY DoesAre
  <2>3. "tasks" \in TaskTables /\ 1 \in 1 .. 11 - 1 BY TablesAreCreated
  <2>4. Statements[11].cols = <<"project_id">> BY ColsAre
  <2>5. OneOrTwo(Statements[11].cols) BY <2>4 DEF OneOrTwo
  <2> QED BY <2>1, <2>2, <2>3, <2>5 DEF NamesCreated, AddInOrder
<1>12. AddInOrder(12)
  <2>1. Statements[12].on = {"projects"} /\ Statements[1].on = TaskTables BY OnAre
  <2>2. Statements[1].does = "create" BY DoesAre
  <2>3. "projects" \in TaskTables /\ 1 \in 1 .. 12 - 1 BY TablesAreCreated
  <2>4. Statements[12].cols = <<"sync_state">> BY ColsAre
  <2>5. OneOrTwo(Statements[12].cols) BY <2>4 DEF OneOrTwo
  <2> QED BY <2>1, <2>2, <2>3, <2>5 DEF NamesCreated, AddInOrder
<1>13. AddInOrder(13)
  <2>1. Statements[13].on = {"goal_runs"} /\ Statements[2].on = GoalTables BY OnAre
  <2>2. Statements[2].does = "create" BY DoesAre
  <2>3. "goal_runs" \in GoalTables /\ 2 \in 1 .. 13 - 1 BY TablesAreCreated
  <2>4. Statements[13].cols = <<"wait_reason">> BY ColsAre
  <2>5. OneOrTwo(Statements[13].cols) BY <2>4 DEF OneOrTwo
  <2> QED BY <2>1, <2>2, <2>3, <2>5 DEF NamesCreated, AddInOrder
<1>14. AddInOrder(14)
  <2>1. Statements[14].on = {"feature_plans"} /\ Statements[3].on = FeatureTables BY OnAre
  <2>2. Statements[3].does = "create" BY DoesAre
  <2>3. "feature_plans" \in FeatureTables /\ 3 \in 1 .. 14 - 1 BY TablesAreCreated
  <2>4. Statements[14].cols = <<"revision">> BY ColsAre
  <2>5. OneOrTwo(Statements[14].cols) BY <2>4 DEF OneOrTwo
  <2> QED BY <2>1, <2>2, <2>3, <2>5 DEF NamesCreated, AddInOrder
<1>16. AddInOrder(16)
  <2>1. Statements[16].on = {"feature_plan_tasks"} /\ Statements[3].on = FeatureTables BY OnAre
  <2>2. Statements[3].does = "create" BY DoesAre
  <2>3. "feature_plan_tasks" \in FeatureTables /\ 3 \in 1 .. 16 - 1 BY TablesAreCreated
  <2>4. Statements[16].cols = <<"contract_json">> BY ColsAre
  <2>5. OneOrTwo(Statements[16].cols) BY <2>4 DEF OneOrTwo
  <2> QED BY <2>1, <2>2, <2>3, <2>5 DEF NamesCreated, AddInOrder
<1>17. AddInOrder(17)
  <2>1. Statements[17].on = {"features"} /\ Statements[3].on = FeatureTables BY OnAre
  <2>2. Statements[3].does = "create" BY DoesAre
  <2>3. "features" \in FeatureTables /\ 3 \in 1 .. 17 - 1 BY TablesAreCreated
  <2>4. Statements[17].cols = <<"feature_plan_id">> BY ColsAre
  <2>5. OneOrTwo(Statements[17].cols) BY <2>4 DEF OneOrTwo
  <2> QED BY <2>1, <2>2, <2>3, <2>5 DEF NamesCreated, AddInOrder
<1>18. AddInOrder(18)
  <2>1. Statements[18].on = {"improvement_proposals"} /\ Statements[2].on = GoalTables BY OnAre
  <2>2. Statements[2].does = "create" BY DoesAre
  <2>3. "improvement_proposals" \in GoalTables /\ 2 \in 1 .. 18 - 1 BY TablesAreCreated
  <2>4. Statements[18].cols = <<"fingerprint">> BY ColsAre
  <2>5. OneOrTwo(Statements[18].cols) BY <2>4 DEF OneOrTwo
  <2> QED BY <2>1, <2>2, <2>3, <2>5 DEF NamesCreated, AddInOrder
<1>19. AddInOrder(19)
  <2>1. Statements[19].on = {"goal_checkpoints"} /\ Statements[2].on = GoalTables BY OnAre
  <2>2. Statements[2].does = "create" BY DoesAre
  <2>3. "goal_checkpoints" \in GoalTables /\ 2 \in 1 .. 19 - 1 BY TablesAreCreated
  <2>4. Statements[19].cols = <<"objective">> BY ColsAre
  <2>5. OneOrTwo(Statements[19].cols) BY <2>4 DEF OneOrTwo
  <2> QED BY <2>1, <2>2, <2>3, <2>5 DEF NamesCreated, AddInOrder
<1>20. AddInOrder(20)
  <2>1. Statements[20].on = {"features"} /\ Statements[3].on = FeatureTables BY OnAre
  <2>2. Statements[3].does = "create" BY DoesAre
  <2>3. "features" \in FeatureTables /\ 3 \in 1 .. 20 - 1 BY TablesAreCreated
  <2>4. Statements[20].cols = <<"feature_plan_id">> BY ColsAre
  <2>5. OneOrTwo(Statements[20].cols) BY <2>4 DEF OneOrTwo
  <2> QED BY <2>1, <2>2, <2>3, <2>5 DEF NamesCreated, AddInOrder
<1>21. AddInOrder(21)
  <2>1. Statements[21].on = {"improvement_proposals"} /\ Statements[2].on = GoalTables BY OnAre
  <2>2. Statements[2].does = "create" BY DoesAre
  <2>3. "improvement_proposals" \in GoalTables /\ 2 \in 1 .. 21 - 1 BY TablesAreCreated
  <2>4. Statements[21].cols = <<"fingerprint">> BY ColsAre
  <2>5. OneOrTwo(Statements[21].cols) BY <2>4 DEF OneOrTwo
  <2> QED BY <2>1, <2>2, <2>3, <2>5 DEF NamesCreated, AddInOrder
<1>23. AddInOrder(23)
  <2>1. Statements[23].on = {"provider_connections"} /\ Statements[22].on = PolicyTables BY OnAre
  <2>2. Statements[22].does = "create" BY DoesAre
  <2>3. "provider_connections" \in PolicyTables /\ 22 \in 1 .. 23 - 1 BY TablesAreCreated
  <2>4. Statements[23].cols = <<"connection_source">> BY ColsAre
  <2>5. OneOrTwo(Statements[23].cols) BY <2>4 DEF OneOrTwo
  <2> QED BY <2>1, <2>2, <2>3, <2>5 DEF NamesCreated, AddInOrder
<1>25. AddInOrder(25)
  <2>1. Statements[25].on = {"provider_controls"} /\ Statements[22].on = PolicyTables BY OnAre
  <2>2. Statements[22].does = "create" BY DoesAre
  <2>3. "provider_controls" \in PolicyTables /\ 22 \in 1 .. 25 - 1 BY TablesAreCreated
  <2>4. Statements[25].cols = <<"model", "effort">> BY ColsAre
  <2>5. OneOrTwo(Statements[25].cols) BY <2>4 DEF OneOrTwo
  <2> QED BY <2>1, <2>2, <2>3, <2>5 DEF NamesCreated, AddInOrder
<1>26. AddInOrder(26)
  <2>1. Statements[26].on = {"provider_capability_routing"} /\ Statements[22].on = PolicyTables BY OnAre
  <2>2. Statements[22].does = "create" BY DoesAre
  <2>3. "provider_capability_routing" \in PolicyTables /\ 22 \in 1 .. 26 - 1 BY TablesAreCreated
  <2>4. Statements[26].cols = <<"preferred_model", "preferred_effort">> BY ColsAre
  <2>5. OneOrTwo(Statements[26].cols) BY <2>4 DEF OneOrTwo
  <2> QED BY <2>1, <2>2, <2>3, <2>5 DEF NamesCreated, AddInOrder
<1>29. AddInOrder(29)
  <2>1. Statements[29].on = {"operational_chat_threads"} /\ Statements[28].on = ChatTables BY OnAre
  <2>2. Statements[28].does = "create" BY DoesAre
  <2>3. "operational_chat_threads" \in ChatTables /\ 28 \in 1 .. 29 - 1 BY TablesAreCreated
  <2>4. Statements[29].cols = <<"access_mode", "provider_id">> BY ColsAre
  <2>5. OneOrTwo(Statements[29].cols) BY <2>4 DEF OneOrTwo
  <2> QED BY <2>1, <2>2, <2>3, <2>5 DEF NamesCreated, AddInOrder
<1>30. AddInOrder(30)
  <2>1. Statements[30].on = {"operational_chat_messages"} /\ Statements[28].on = ChatTables BY OnAre
  <2>2. Statements[28].does = "create" BY DoesAre
  <2>3. "operational_chat_messages" \in ChatTables /\ 28 \in 1 .. 30 - 1 BY TablesAreCreated
  <2>4. Statements[30].cols = <<"thread_id", "provider_id">> BY ColsAre
  <2>5. OneOrTwo(Statements[30].cols) BY <2>4 DEF OneOrTwo
  <2> QED BY <2>1, <2>2, <2>3, <2>5 DEF NamesCreated, AddInOrder
<1>32. AddInOrder(32)
  <2>1. Statements[32].on = {"operational_chat_messages"} /\ Statements[28].on = ChatTables BY OnAre
  <2>2. Statements[28].does = "create" BY DoesAre
  <2>3. "operational_chat_messages" \in ChatTables /\ 28 \in 1 .. 32 - 1 BY TablesAreCreated
  <2>4. Statements[32].cols = <<"thread_id">> BY ColsAre
  <2>5. OneOrTwo(Statements[32].cols) BY <2>4 DEF OneOrTwo
  <2> QED BY <2>1, <2>2, <2>3, <2>5 DEF NamesCreated, AddInOrder
<1> QED BY <1>5, <1>8, <1>11, <1>12, <1>13, <1>14, <1>16, <1>17, <1>18, <1>19, <1>20, <1>21, <1>23, <1>25,
      <1>26, <1>29, <1>30, <1>32

LEMMA IndexesAreInOrder == IndexAfterColumn(20) /\ IndexAfterColumn(21) /\ IndexAfterColumn(32)
<1>1. IndexAfterColumn(20)
  <2>1. 17 \in 1 .. 20 - 1 OBVIOUS
  <2>2. Statements[17].does = "add" BY DoesAre
  <2>3. Statements[17].on = Statements[20].on BY OnAre
  <2>4. Statements[17].cols = <<"feature_plan_id">> /\ Statements[20].cols = <<"feature_plan_id">> BY ColsAre
  <2>5. 1 \in DOMAIN Statements[17].cols /\ Statements[17].cols[1] = Statements[20].cols[1] BY <2>4
  <2> QED BY <2>1, <2>2, <2>3, <2>5 DEF IndexAfterColumn
<1>2. IndexAfterColumn(21)
  <2>1. 18 \in 1 .. 21 - 1 OBVIOUS
  <2>2. Statements[18].does = "add" BY DoesAre
  <2>3. Statements[18].on = Statements[21].on BY OnAre
  <2>4. Statements[18].cols = <<"fingerprint">> /\ Statements[21].cols = <<"fingerprint">> BY ColsAre
  <2>5. 1 \in DOMAIN Statements[18].cols /\ Statements[18].cols[1] = Statements[21].cols[1] BY <2>4
  <2> QED BY <2>1, <2>2, <2>3, <2>5 DEF IndexAfterColumn
<1>3. IndexAfterColumn(32)
  <2>1. 30 \in 1 .. 32 - 1 OBVIOUS
  <2>2. Statements[30].does = "add" BY DoesAre
  <2>3. Statements[30].on = Statements[32].on BY OnAre
  <2>4. Statements[30].cols = <<"thread_id", "provider_id">> /\ Statements[32].cols = <<"thread_id">> BY ColsAre
  <2>5. 1 \in DOMAIN Statements[30].cols /\ Statements[30].cols[1] = Statements[32].cols[1] BY <2>4
  <2> QED BY <2>1, <2>2, <2>3, <2>5 DEF IndexAfterColumn
<1> QED BY <1>1, <1>2, <1>3

LEMMA OldIsLookedAt ==
  /\ Statements[23].on = {SourceColumn[1]} /\ Statements[23].cols = <<SourceColumn[2]>> /\ LooksAtOld(23)
  /\ Statements[24].on = {"legacy"} /\ LooksAtOld(24)
<1>1. SourceColumn[1] = "provider_connections" /\ SourceColumn[2] = "connection_source" BY DEF SourceColumn
<1>2. Statements[23].on = {SourceColumn[1]} /\ Statements[24].on = {"legacy"} BY <1>1, OnAre
<1>3. Statements[23].cols = <<SourceColumn[2]>> BY <1>1, ColsAre
<1>4. Statements[22].does = "create" BY DoesAre
<1>5. Statements[22].on = PolicyTables BY OnAre
<1>6. SourceColumn[1] \in Statements[22].on BY <1>1, <1>5, TablesAreCreated
<1>7. 22 \in 1 .. 23 - 1 /\ 22 \in 1 .. 24 - 1 OBVIOUS
<1> QED BY <1>2, <1>3, <1>4, <1>6, <1>7 DEF LooksAtOld

LEMMA StatementsOrdered == StatementsInOrder
<1>1. ASSUME NEW i \in 1 .. 32
      PROVE /\ Statements[i].does \in {"create", "index"} \cup Adding \cup Filling
            /\ Statements[i].does \in Adding \cup {"index"} => AddInOrder(i)
            /\ Statements[i].does = "index" => IndexAfterColumn(i)
  <2>1. Statements[i].does \in {"create", "index"} \cup Adding \cup Filling
    BY KindOfStatement
  <2>2. Statements[i].does \in Adding \cup {"index"} => AddInOrder(i)
    BY KindOfStatement, AddsAreInOrder
  <2>3. Statements[i].does = "index" => IndexAfterColumn(i)
    BY KindOfStatement, IndexesAreInOrder
  <2> QED BY <2>1, <2>2, <2>3
<1>2. ASSUME NEW i \in 1 .. 32
      PROVE /\ Statements[i].does = "addToOld" =>
                 Statements[i].on = {SourceColumn[1]} /\ Statements[i].cols = <<SourceColumn[2]>>
                     /\ LooksAtOld(i)
            /\ Statements[i].does = "deleteFromOld" => Statements[i].on = {"legacy"} /\ LooksAtOld(i)
  BY KindOfStatement, OldIsLookedAt
<1> QED BY <1>1, <1>2 DEF StatementsInOrder

LEMMA KindsFilled == EachKindFilled
<1>1. 6 \in 1 .. 32 /\ 15 \in 1 .. 32 /\ 24 \in 1 .. 32 /\ 31 \in 1 .. 32 OBVIOUS
<1>2. /\ Statements[6].on = {"untitled"} /\ Statements[15].on = {"planned"}
      /\ Statements[24].on = {"legacy"} /\ Statements[31].on = {"unthreaded"}
  BY OnAre
<1>3. /\ Statements[6].does = "fillEach" /\ Statements[15].does = "fillAll"
      /\ Statements[24].does = "deleteFromOld" /\ Statements[31].does = "fillEach"
  BY DoesAre
<1>4. ASSUME NEW kind \in Kinds
      PROVE \E i \in {6, 15, 24, 31} : Statements[i].does \in Filling /\ kind \in Statements[i].on
  <2>1. kind = "untitled" \/ kind = "planned" \/ kind = "legacy" \/ kind = "unthreaded"
    BY DEF Kinds
  <2> QED BY <2>1, <1>2, <1>3 DEF Filling
<1> QED BY <1>1, <1>4 DEF EachKindFilled

LEMMA SourceIsColumn ==
  /\ Len(Statements) = 32 /\ DOMAIN Statements = 1 .. 32
  /\ SourceColumn \in AllColumns /\ SourceColumn \notin AddedAnyway
<1>1. Len(Statements) = 32 /\ DOMAIN Statements = 1 .. 32 BY StatementsAre
<1>2. SourceColumn \notin AddedAnyway BY DEF SourceColumn, AddedAnyway
<1>3. 23 \in DOMAIN Statements /\ Statements[23].does \in Adding BY <1>1, DoesAre DEF Adding
<1>4. Statements[23].on = {"provider_connections"} BY OnAre
<1>5. Statements[23].cols = <<"connection_source">> BY ColsAre
<1>6. \E t \in Statements[23].on, k \in DOMAIN Statements[23].cols : SourceColumn = <<t,
      Statements[23].cols[k]>>
  BY <1>4, <1>5 DEF SourceColumn
<1>7. SourceColumn \in AllColumns BY <1>3, <1>6 DEF AllColumns
<1> QED BY <1>1, <1>2, <1>7

ColumnOf(i, k) == <<CHOOSE t \in Statements[i].on : TRUE, Statements[i].cols[k]>>
HasColumns(i) == \A k \in DOMAIN Statements[i].cols : ColumnOf(i, k) \in columns
OldOrWithSource(o) == opener[o].had \/ (SourceColumn \in columns /\ \A r \in stale : r[1] # "legacy")

\* What a statement that was executed in this opening has done for good.
Did(o, i) ==
  /\ Statements[i].does = "create" =>
       Statements[i].on \subseteq tables /\ (SourceColumn[1] \in Statements[i].on => OldOrWithSource(o))
  /\ Statements[i].does \in {"add", "addToOld"} => HasColumns(i)
  /\ Statements[i].does = "try" => opener[o].contested \/ HasColumns(i)
  /\ Statements[i].does \in Filling => \A r \in stale : r[1] \notin Statements[i].on

DidBefore(o) ==
  opener[o].at \in {"migrating", "adding", "open"} => \A i \in 1 .. 32 : i < opener[o].pc => Did(o, i)

\* The columns a look found missing are still missing, unless others migrate too.
LackSound(o) ==
  opener[o].at = "adding" =>
    /\ opener[o].pc \in 1 .. 32 /\ Statements[opener[o].pc].does \in Adding
    /\ opener[o].lacks # {} /\ opener[o].lacks \subseteq DOMAIN Statements[opener[o].pc].cols
    /\ \A k \in DOMAIN Statements[opener[o].pc].cols :
         k \in opener[o].lacks \/ ColumnOf(opener[o].pc, k) \in columns
    /\ opener[o].contested \/ \A k \in opener[o].lacks : ColumnOf(opener[o].pc, k) \notin columns

EndSound(o) ==
  /\ opener[o].at = "open" => opener[o].pc = 33
  /\ opener[o].at = "failed" => opener[o].contested

OpenerSound(o) == DidBefore(o) /\ LackSound(o) /\ EndSound(o)

TogetherContested ==
  \A p, q \in Openers : p # q /\ Migrating(p) /\ Migrating(q) => opener[p].contested

RowsHaveHome == \A r \in stale : r \in Kinds \X Rows /\ HomeOf[r[1]] \in tables

MigrationInv ==
  MigrationTypeOK /\ RowsHaveHome /\ TogetherContested /\ \A o \in Openers : OpenerSound(o)

-----------------------------------------------------------------------------
\* A statement that adds names one table and a column or two, which differ.
LEMMA ShapeOfAdding ==
  ASSUME NEW i \in 1 .. 32, Statements[i].does \in Adding \cup {"index"}
  PROVE  /\ \E t : /\ Statements[i].on = {t}
                 /\ \A k \in DOMAIN Statements[i].cols : ColumnOf(i, k) = <<t, Statements[i].cols[k]>>
         /\ 1 \in DOMAIN Statements[i].cols /\ DOMAIN Statements[i].cols \subseteq {1, 2}
         /\ \A k, l \in DOMAIN Statements[i].cols : ColumnOf(i, k) = ColumnOf(i, l) => k = l
<1>1. AddInOrder(i) BY StatementsOrdered DEF StatementsInOrder
<1>2. PICK u : Statements[i].on = {u} BY <1>1 DEF AddInOrder
<1>3. (CHOOSE t \in Statements[i].on : TRUE) = u BY <1>2
<1>4. /\ 1 \in DOMAIN Statements[i].cols /\ DOMAIN Statements[i].cols \subseteq {1, 2}
      /\ \A k, l \in DOMAIN Statements[i].cols : Statements[i].cols[k] = Statements[i].cols[l] => k = l
  <2>1. OneOrTwo(Statements[i].cols) BY <1>1 DEF AddInOrder
  <2>2. CASE \E a : Statements[i].cols = <<a>>
    BY <2>2
  <2>3. CASE \E a, b : a # b /\ Statements[i].cols = <<a, b>>
    BY <2>3
  <2> QED BY <2>1, <2>2, <2>3 DEF OneOrTwo
<1>5. \A k \in DOMAIN Statements[i].cols : ColumnOf(i, k) = <<u, Statements[i].cols[k]>>
  BY <1>3 DEF ColumnOf
<1>6. ASSUME NEW k \in DOMAIN Statements[i].cols, NEW l \in DOMAIN Statements[i].cols,
             ColumnOf(i, k) = ColumnOf(i, l)
      PROVE  k = l
  <2>1. <<u, Statements[i].cols[k]>> = <<u, Statements[i].cols[l]>> BY <1>5, <1>6
  <2>2. Statements[i].cols[k] = Statements[i].cols[l] BY <2>1
  <2> QED BY <1>4, <2>2
<1>7. \E t : /\ Statements[i].on = {t}
            /\ \A k \in DOMAIN Statements[i].cols : ColumnOf(i, k) = <<t, Statements[i].cols[k]>>
  BY <1>2, <1>5
<1> QED BY <1>4, <1>6, <1>7

\* The columns are those of the statements that add one.
LEMMA ColumnsAre ==
  /\ \A i \in 1 .. 32 : Statements[i].does \in Adding =>
        \A k \in DOMAIN Statements[i].cols : ColumnOf(i, k) \in AllColumns
  /\ \A c \in AllColumns : \E i \in 1 .. 32 :
        /\ Statements[i].does \in Adding
        /\ \E k \in DOMAIN Statements[i].cols : c = ColumnOf(i, k)
        /\ Statements[i].does = "try" => c \in Forgiven
<1>1. ASSUME NEW i \in 1 .. 32, Statements[i].does \in Adding, NEW k \in DOMAIN Statements[i].cols
      PROVE /\ ColumnOf(i, k) \in AllColumns
            /\ Statements[i].does = "try" => ColumnOf(i, k) \in Forgiven
  <2>1. PICK t : Statements[i].on = {t} /\ ColumnOf(i, k) = <<t, Statements[i].cols[k]>>
    BY <1>1, ShapeOfAdding
  <2>2. i \in DOMAIN Statements BY SourceIsColumn
  <2>3. ColumnOf(i, k) \in AllColumns
    BY <1>1, <2>1, <2>2 DEF AllColumns
  <2>4. Statements[i].does = "try" => ColumnOf(i, k) \in Forgiven
    BY <1>1, <2>1, <2>2 DEF Forgiven
  <2> QED BY <2>3, <2>4
<1>2. ASSUME NEW c \in AllColumns
      PROVE \E i \in 1 .. 32 :
              /\ Statements[i].does \in Adding
              /\ \E k \in DOMAIN Statements[i].cols : c = ColumnOf(i, k)
              /\ Statements[i].does = "try" => c \in Forgiven
  <2>1. PICK i \in DOMAIN Statements :
          /\ Statements[i].does \in Adding
          /\ c \in {<<t, Statements[i].cols[k]>> : t \in Statements[i].on, k \in DOMAIN Statements[i].cols}
    BY DEF AllColumns
  <2>2. i \in 1 .. 32 BY SourceIsColumn
  <2>3. PICK t \in Statements[i].on, k \in DOMAIN Statements[i].cols : c = <<t, Statements[i].cols[k]>>
    BY <2>1
  <2>4. PICK u : /\ Statements[i].on = {u}
                 /\ \A l \in DOMAIN Statements[i].cols : ColumnOf(i, l) = <<u, Statements[i].cols[l]>>
    <3>1. Statements[i].does \in Adding \cup {"index"} BY <2>1
    <3> QED BY <2>2, <3>1, ShapeOfAdding
  <2>5. c = ColumnOf(i, k)
    BY <2>3, <2>4
  <2> QED BY <1>1, <2>1, <2>2, <2>3, <2>5
<1> QED BY <1>1, <1>2

-----------------------------------------------------------------------------
DatabaseGrows == tables \subseteq tables' /\ columns \subseteq columns' /\ stale' \subseteq stale

\* What is done stays done: nothing is dropped, and no old row comes back.
LEMMA DidStays ==
  ASSUME NEW o \in Openers, NEW i \in 1 .. 32, DatabaseGrows, Did(o, i),
         opener[o].had => opener'[o].had, opener[o].contested => opener'[o].contested
  PROVE  Did(o, i)'
<1>1. HasColumns(i) => HasColumns(i)'
  BY DEF HasColumns, DatabaseGrows, ColumnOf
<1>2. OldOrWithSource(o) => OldOrWithSource(o)'
  BY DEF OldOrWithSource, DatabaseGrows
<1>3. (\A r \in stale : r[1] \notin Statements[i].on) => (\A r \in stale' : r[1] \notin Statements[i].on)
  BY DEF DatabaseGrows
<1>4. tables \subseteq tables'
  BY DEF DatabaseGrows
<1> QED BY <1>1, <1>2, <1>3, <1>4 DEF Did

\* A process that does not act notices at most that it is contested.
LEMMA OthersSound ==
  ASSUME MigrationInv, DatabaseGrows, NEW o \in Openers, Migrating(o), NEW q \in Openers, q # o,
         opener'[q] = opener[q]
  PROVE  OpenerSound(q)'
<1>0. OpenerSound(q) /\ (Migrating(q) => opener[q].contested)
  BY DEF MigrationInv, TogetherContested
<1>1. DidBefore(q)'
  BY <1>0, DidStays DEF OpenerSound, DidBefore
<1>2. LackSound(q)'
  <2>1. SUFFICES ASSUME opener[q].at = "adding" PROVE LackSound(q)'
    BY DEF LackSound
  <2>2. opener[q].contested
    BY <1>0, <2>1 DEF Migrating
  <2>3. \A k \in DOMAIN Statements[opener[q].pc].cols :
          ColumnOf(opener[q].pc, k) \in columns => ColumnOf(opener[q].pc, k) \in columns'
    BY DEF DatabaseGrows
  <2> QED BY <1>0, <2>1, <2>2, <2>3 DEF LackSound, OpenerSound, ColumnOf
<1>3. EndSound(q)'
  BY <1>0 DEF EndSound, OpenerSound
<1> QED BY <1>1, <1>2, <1>3 DEF OpenerSound

\* A process goes on to the next statement when it has done this one.
LEMMA FollowingSound ==
  ASSUME MigrationInv, DatabaseGrows, NEW o \in Openers, Migrating(o),
         NEW n \in 1 .. 32, opener[o].pc = n, opener'[o].at = "migrating", opener'[o].pc = opener[o].pc + 1,
         opener[o].had => opener'[o].had, opener'[o].contested = opener[o].contested,
         Did(o, n)'
  PROVE  OpenerSound(o)'
<1>0. DidBefore(o)
  BY DEF MigrationInv, OpenerSound
<1>1. ASSUME NEW i \in 1 .. 32, i < opener'[o].pc PROVE Did(o, i)'
  <2>1. CASE i < opener[o].pc
    <3>1. Did(o, i) BY <1>0, <2>1 DEF DidBefore, Migrating
    <3> QED BY <3>1, DidStays
  <2>2. CASE i = opener[o].pc
    BY <2>2
  <2> QED BY <1>1, <2>1, <2>2
<1>2. DidBefore(o)'
  BY <1>1 DEF DidBefore
<1> QED BY <1>2 DEF OpenerSound, LackSound, EndSound

LEMMA TogetherStays ==
  ASSUME MigrationInv, NEW o \in Openers, Migrating(o), opener'[o].contested = opener[o].contested,
         \A q \in Openers : q # o => opener'[q] = opener[q]
  PROVE  TogetherContested'
BY DEF MigrationInv, TogetherContested, Migrating

LEMMA InvFacts ==
  ASSUME MigrationInv, NEW o \in Openers
  PROVE  /\ opener \in [Openers -> OpenerShape] /\ opener[o] \in OpenerShape
         /\ opener[o].pc \in 1 .. 33 /\ OpenerSound(o)
         /\ tables \subseteq AllTables /\ columns \subseteq AllColumns
         /\ \A c \in columns : c[1] \in tables
<1>1. opener \in [Openers -> OpenerShape] /\ opener[o] \in OpenerShape
  BY DEF MigrationInv, MigrationTypeOK
<1>2. opener[o].pc \in 1 .. 33
  BY <1>1, SourceIsColumn DEF OpenerShape
<1> QED BY <1>1, <1>2 DEF MigrationInv, MigrationTypeOK

LEMMA FollowingIs ==
  ASSUME MigrationInv, NEW o \in Openers, NEW n \in 1 .. 32, opener[o].pc = n
  PROVE  /\ Following(o) \in OpenerShape
         /\ Following(o).at = "migrating" /\ Following(o).pc = n + 1 /\ Following(o).lacks = {}
         /\ Following(o).had = opener[o].had /\ Following(o).contested = opener[o].contested
<1>1. opener[o] \in OpenerShape BY InvFacts
<1> DEFINE m == n + 1
<1>2. m \in 1 .. Len(Statements) + 1 BY SourceIsColumn
<1>3. Following(o) = [opener[o] EXCEPT !.at = "migrating", !.pc = m, !.lacks = {}]
  BY <1>1 DEF Following, OpenerShape
<1> HIDE DEF m
<1>4. /\ Following(o) \in OpenerShape
      /\ Following(o).at = "migrating" /\ Following(o).pc = m /\ Following(o).lacks = {}
      /\ Following(o).had = opener[o].had /\ Following(o).contested = opener[o].contested
  BY <1>1, <1>2, <1>3 DEF OpenerShape
<1> QED BY <1>4 DEF m

\* What every step of a process that migrates has to show.
LEMMA StepSound ==
  ASSUME MigrationInv, DatabaseGrows, NEW o \in Openers, Migrating(o), NEW x \in OpenerShape,
         opener' = [opener EXCEPT ![o] = x], x.contested = opener[o].contested,
         tables' \subseteq AllTables, \A c \in columns' : c \in AllColumns /\ c[1] \in tables',
         crashes' = crashes, OpenerSound(o)'
  PROVE  MigrationInv'
<1>1. opener \in [Openers -> OpenerShape] BY InvFacts
<1>2. opener'[o] = x /\ \A q \in Openers : q # o => opener'[q] = opener[q]
  BY <1>1
<1>3. \A q \in Openers : OpenerSound(q)'
  BY <1>2, OthersSound
<1>4. TogetherContested'
  BY <1>2, TogetherStays
<1>5. RowsHaveHome'
  BY DEF MigrationInv, RowsHaveHome, DatabaseGrows
<1>6. MigrationTypeOK'
  <2>1. opener' \in [Openers -> OpenerShape] BY <1>1
  <2>2. stale' \subseteq Kinds \X Rows BY DEF MigrationInv, MigrationTypeOK, DatabaseGrows
  <2>3. crashes' \in 0 .. MaxCrashes BY DEF MigrationInv, MigrationTypeOK
  <2>4. columns' \subseteq {c \in AllColumns : c[1] \in tables'} OBVIOUS
  <2> QED BY <2>1, <2>2, <2>3, <2>4 DEF MigrationTypeOK
<1> QED BY <1>3, <1>4, <1>5, <1>6 DEF MigrationInv

\* Each action keeps the invariant.
LEMMA CreatesSound ==
  ASSUME MigrationInv, NEW o \in Openers, Creates(o)
  PROVE  MigrationInv'
<1>n. PICK n \in 1 .. 32 : n = opener[o].pc
  BY InvFacts, SourceIsColumn DEF Creates, NowAt
<1>h. PICK had \in BOOLEAN : had = (opener[o].had \/ "provider_connections" \in Statements[n].on \cap tables)
  OBVIOUS
<1>x. PICK x : x = [Following(o) EXCEPT !.had = had]
  OBVIOUS
<1>1. /\ Migrating(o) /\ Statements[n].does = "create"
      /\ tables' = tables \cup Statements[n].on
      /\ columns' = columns \cup {c \in AllColumns : c[1] \in Statements[n].on \ tables /\ c \notin AddedAnyway}
      /\ stale' = stale /\ crashes' = crashes
  BY <1>n DEF Creates, NowAt, Now, Migrating
<1>2. Following(o) \in OpenerShape /\ Following(o).had = opener[o].had
  BY <1>n, FollowingIs
<1>3. opener' = [opener EXCEPT ![o] = x]
  BY <1>n, <1>h, <1>x, <1>2 DEF Creates, Becomes, Now
<1>4. /\ x \in OpenerShape /\ x.at = "migrating" /\ x.pc = n + 1 /\ x.had = had
      /\ x.contested = opener[o].contested
  BY <1>n, <1>x, FollowingIs DEF OpenerShape
<1>5. DatabaseGrows BY <1>1 DEF DatabaseGrows
<1>6. opener'[o] = x BY <1>3, InvFacts
<1>7. Did(o, n)'
  <2>1. Statements[n].on \subseteq tables' BY <1>1
  <2>2. ASSUME SourceColumn[1] \in Statements[n].on PROVE OldOrWithSource(o)'
    <3>0. SourceColumn[1] = "provider_connections" BY DEF SourceColumn
    <3>1. CASE SourceColumn[1] \in tables
      BY <1>4, <1>6, <1>h, <2>2, <3>0, <3>1 DEF OldOrWithSource
    <3>2. CASE SourceColumn[1] \notin tables
      <4>1. SourceColumn \in columns' BY <1>1, <2>2, <3>2, SourceIsColumn
      <4>2. \A r \in stale' : r[1] # "legacy"
        <5>1. HomeOf["legacy"] = SourceColumn[1] BY <3>0 DEF HomeOf
        <5> QED BY <1>1, <3>2, <5>1 DEF MigrationInv, RowsHaveHome
      <4> QED BY <4>1, <4>2 DEF OldOrWithSource
    <3> QED BY <3>1, <3>2
  <2> QED BY <1>1, <2>1, <2>2 DEF Did, Filling
<1>8. OpenerSound(o)'
  <2>1. opener[o].had => opener'[o].had BY <1>4, <1>6, <1>h
  <2> QED BY <1>n, <1>1, <1>4, <1>5, <1>6, <1>7, <2>1, FollowingSound
<1>9. tables' \subseteq AllTables
  <2>1. Statements[n].on \subseteq AllTables
    <3>1. n \in DOMAIN Statements BY SourceIsColumn
    <3> QED BY <1>1, <3>1 DEF AllTables
  <2> QED BY <1>1, <2>1, InvFacts
<1>10. \A c \in columns' : c \in AllColumns /\ c[1] \in tables'
  BY <1>1, InvFacts
<1> QED BY <1>1, <1>3, <1>4, <1>5, <1>8, <1>9, <1>10, StepSound

LEMMA LooksUpSound ==
  ASSUME MigrationInv, NEW o \in Openers, LooksUp(o)
  PROVE  MigrationInv'
<1>n. PICK n \in 1 .. 32 : n = opener[o].pc
  BY InvFacts, SourceIsColumn DEF LooksUp, NowAt
<1>l. PICK lacks : lacks = {k \in DOMAIN Statements[n].cols : ColumnOf(n, k) \notin columns}
  OBVIOUS
<1>1. /\ opener[o].at = "migrating" /\ Migrating(o) /\ Statements[n].does \in Adding
      /\ tables' = tables /\ columns' = columns /\ stale' = stale /\ crashes' = crashes
  BY <1>n DEF LooksUp, NowAt, Now, Migrating, Adding
<1>2. Lacking(Table(o), Now(o).cols) = lacks
  BY <1>n, <1>l DEF Lacking, Table, Now, ColumnOf
<1>3. DatabaseGrows BY <1>1 DEF DatabaseGrows
<1>4. opener[o] \in OpenerShape /\ OpenerSound(o) BY InvFacts
<1>5. CASE lacks = {} \/ (Statements[n].does = "addToOld" /\ ~opener[o].had)
  <2>x. PICK x : x = Following(o) OBVIOUS
  <2>1. opener' = [opener EXCEPT ![o] = x]
    BY <1>n, <1>2, <1>5, <2>x DEF LooksUp, Becomes, Now
  <2>2. /\ x \in OpenerShape /\ x.at = "migrating" /\ x.pc = n + 1 /\ x.had = opener[o].had
        /\ x.contested = opener[o].contested
    BY <1>n, <2>x, FollowingIs
  <2>3. opener'[o] = x BY <2>1, InvFacts
  <2>4. HasColumns(n)
    <3>1. CASE lacks = {} BY <1>l, <3>1 DEF HasColumns
    <3>2. CASE Statements[n].does = "addToOld" /\ ~opener[o].had
      <4>1. /\ Statements[n].on = {SourceColumn[1]} /\ Statements[n].cols = <<SourceColumn[2]>> /\ LooksAtOld(n)
        BY <3>2, StatementsOrdered DEF StatementsInOrder
      <4>2. PICK j \in 1 .. n - 1 : Statements[j].does = "create" /\ SourceColumn[1] \in Statements[j].on
        BY <4>1 DEF LooksAtOld
      <4>3. Did(o, j)
        BY <1>n, <1>1, <1>4 DEF OpenerSound, DidBefore
      <4>4. SourceColumn \in columns
        BY <3>2, <4>2, <4>3 DEF Did, OldOrWithSource
      <4>5. SourceColumn = <<SourceColumn[1], SourceColumn[2]>> BY DEF SourceColumn
      <4>6. \A k \in DOMAIN Statements[n].cols : ColumnOf(n, k) = SourceColumn
        BY <4>1, <4>5 DEF ColumnOf
      <4> QED BY <4>4, <4>6 DEF HasColumns
    <3> QED BY <1>5, <3>1, <3>2
  <2>5. Did(o, n)'
    <3>1. HasColumns(n)' BY <1>1, <2>4 DEF HasColumns, ColumnOf
    <3> QED BY <1>1, <3>1 DEF Did, Adding, Filling
  <2>6. OpenerSound(o)'
    BY <1>n, <1>1, <1>3, <2>2, <2>3, <2>5, FollowingSound
  <2>7. tables' \subseteq AllTables /\ \A c \in columns' : c \in AllColumns /\ c[1] \in tables'
    BY <1>1, InvFacts
  <2> QED BY <1>1, <1>3, <2>1, <2>2, <2>6, <2>7, StepSound
<1>6. CASE ~(lacks = {} \/ (Statements[n].does = "addToOld" /\ ~opener[o].had))
  <2>x. PICK x : x = [opener[o] EXCEPT !.at = "adding", !.lacks = lacks] OBVIOUS
  <2>1. opener' = [opener EXCEPT ![o] = x]
    BY <1>n, <1>2, <1>6, <2>x DEF LooksUp, Becomes, Now
  <2>2. lacks \subseteq {1, 2} /\ lacks \subseteq Nat /\ lacks \subseteq DOMAIN Statements[n].cols
    <3>1. Statements[n].does \in Adding \cup {"index"} BY <1>1
    <3> QED BY <1>l, <3>1, ShapeOfAdding
  <2>3. /\ x \in OpenerShape /\ x.at = "adding" /\ x.pc = n /\ x.lacks = lacks /\ x.had = opener[o].had
        /\ x.contested = opener[o].contested
    BY <1>n, <1>4, <2>x, <2>2 DEF OpenerShape
  <2>4. opener'[o] = x BY <2>1, InvFacts
  <2>5. DidBefore(o)'
    BY <1>n, <1>1, <1>3, <1>4, <2>3, <2>4, DidStays DEF OpenerSound, DidBefore
  <2>6. LackSound(o)'
    <3>1. opener'[o].pc = n /\ opener'[o].lacks = lacks BY <2>3, <2>4
    <3>2. \A k \in DOMAIN Statements[n].cols : k \in lacks \/ ColumnOf(n, k) \in columns'
      BY <1>l, <1>1
    <3>3. \A k \in lacks : ColumnOf(n, k) \notin columns'
      BY <1>l, <1>1
    <3> QED BY <1>1, <1>6, <2>2, <3>1, <3>2, <3>3 DEF LackSound
  <2>7. OpenerSound(o)'
    BY <2>3, <2>4, <2>5, <2>6 DEF OpenerSound, EndSound
  <2>8. tables' \subseteq AllTables /\ \A c \in columns' : c \in AllColumns /\ c[1] \in tables'
    BY <1>1, InvFacts
  <2> QED BY <1>1, <1>3, <2>1, <2>3, <2>7, <2>8, StepSound
<1> QED BY <1>5, <1>6

LEMMA NextLackIs ==
  ASSUME NEW o \in Openers, opener[o].lacks # {}, opener[o].lacks \subseteq {1, 2}
  PROVE  NextLack(o) \in opener[o].lacks
<1>1. \E k \in opener[o].lacks : \A j \in opener[o].lacks : k <= j
  <2>1. CASE 1 \in opener[o].lacks BY <2>1
  <2>2. CASE 1 \notin opener[o].lacks BY <2>2
  <2> QED BY <2>1, <2>2
<1> QED BY <1>1 DEF NextLack

LEMMA AltersSound ==
  ASSUME MigrationInv, NEW o \in Openers, Alters(o)
  PROVE  MigrationInv'
<1>0. /\ opener[o] \in OpenerShape /\ OpenerSound(o) /\ Migrating(o) /\ opener[o].at = "adding"
      /\ LackSound(o) /\ DidBefore(o)
  BY InvFacts DEF Alters, Migrating, OpenerSound
<1>n. PICK n \in 1 .. 32 : n = opener[o].pc
  BY <1>0 DEF LackSound
<1>k. PICK next : next = NextLack(o)
  OBVIOUS
<1>l. PICK left : left = opener[o].lacks \ {next}
  OBVIOUS
<1>1. /\ Statements[n].does \in Adding /\ opener[o].lacks # {}
      /\ opener[o].lacks \subseteq DOMAIN Statements[n].cols
      /\ \A k \in DOMAIN Statements[n].cols : k \in opener[o].lacks \/ ColumnOf(n, k) \in columns
      /\ opener[o].contested \/ \A k \in opener[o].lacks : ColumnOf(n, k) \notin columns
  BY <1>0, <1>n DEF LackSound
<1>2. /\ \E t : /\ Statements[n].on = {t}
              /\ \A k \in DOMAIN Statements[n].cols : ColumnOf(n, k) = <<t, Statements[n].cols[k]>>
      /\ DOMAIN Statements[n].cols \subseteq {1, 2}
      /\ \A k, l \in DOMAIN Statements[n].cols : ColumnOf(n, k) = ColumnOf(n, l) => k = l
  <2>1. Statements[n].does \in Adding \cup {"index"} BY <1>1
  <2> QED BY <2>1, ShapeOfAdding
<1>3. next \in opener[o].lacks /\ next \in DOMAIN Statements[n].cols
  BY <1>k, <1>1, <1>2, NextLackIs
<1>4. <<Table(o), Now(o).cols[NextLack(o)]>> = ColumnOf(n, next)
  BY <1>n, <1>k DEF Table, Now, ColumnOf
<1>5. tables' = tables /\ columns' = columns \cup {ColumnOf(n, next)} /\ stale' = stale /\ crashes' = crashes
  BY <1>4 DEF Alters
<1>6. DatabaseGrows BY <1>5 DEF DatabaseGrows
<1>7. tables' \subseteq AllTables /\ \A c \in columns' : c \in AllColumns /\ c[1] \in tables'
  <2>1. ColumnOf(n, next) \in AllColumns
    BY <1>1, <1>3, ColumnsAre
  <2>2. PICK t : Statements[n].on = {t} /\ ColumnOf(n, next) = <<t, Statements[n].cols[next]>>
    BY <1>2, <1>3
  <2>3. PICK j \in 1 .. n - 1 : Statements[j].does = "create" /\ Statements[n].on \subseteq Statements[j].on
    <3>1. AddInOrder(n) BY <1>1, StatementsOrdered DEF StatementsInOrder
    <3> QED BY <3>1 DEF AddInOrder, NamesCreated
  <2>4. Did(o, j)
    BY <1>0, <1>n DEF DidBefore
  <2>5. t \in tables
    BY <2>2, <2>3, <2>4 DEF Did
  <2>6. ColumnOf(n, next)[1] \in tables
    BY <2>2, <2>5
  <2> QED BY <1>5, <2>1, <2>6, InvFacts
<1>8. ColumnOf(n, next) \in columns => opener[o].contested
  BY <1>1, <1>3
<1>9. ASSUME opener' = [opener EXCEPT ![o] = Following(o)], HasColumns(n)' \/ (Statements[n].does = "try"
      /\ opener[o].contested)
      PROVE  MigrationInv'
  <2>x. PICK x : x = Following(o) OBVIOUS
  <2>1. opener' = [opener EXCEPT ![o] = x] BY <1>9, <2>x
  <2>2. /\ x \in OpenerShape /\ x.at = "migrating" /\ x.pc = n + 1 /\ x.had = opener[o].had
        /\ x.contested = opener[o].contested
    BY <1>n, <2>x, FollowingIs
  <2>3. opener'[o] = x BY <2>1, InvFacts
  <2>4. Did(o, n)'
    BY <1>1, <1>9, <2>2, <2>3 DEF Did, Adding, Filling
  <2>5. OpenerSound(o)'
    BY <1>0, <1>n, <1>6, <2>2, <2>3, <2>4, FollowingSound
  <2> QED BY <1>0, <1>5, <1>6, <1>7, <2>1, <2>2, <2>5, StepSound
<1>10. CASE ColumnOf(n, next) \notin columns /\ left = {}
  <2>1. opener' = [opener EXCEPT ![o] = Following(o)]
    BY <1>4, <1>10, <1>k, <1>l DEF Alters, Becomes
  <2>2. HasColumns(n)'
    <3>1. \A k \in DOMAIN Statements[n].cols : ColumnOf(n, k) \in columns'
      BY <1>1, <1>5, <1>l, <1>10
    <3> QED BY <3>1 DEF HasColumns, ColumnOf
  <2> QED BY <1>9, <2>1, <2>2
<1>11. CASE ColumnOf(n, next) \notin columns /\ left # {}
  <2>x. PICK x : x = [opener[o] EXCEPT !.lacks = left] OBVIOUS
  <2>1. opener' = [opener EXCEPT ![o] = x]
    BY <1>4, <1>11, <1>k, <1>l, <2>x DEF Alters, Becomes
  <2>2. left \subseteq Nat /\ left \subseteq DOMAIN Statements[n].cols BY <1>1, <1>2, <1>l
  <2>3. /\ x \in OpenerShape /\ x.at = "adding" /\ x.pc = n /\ x.lacks = left /\ x.had = opener[o].had
        /\ x.contested = opener[o].contested
    BY <1>0, <1>n, <2>x, <2>2 DEF OpenerShape
  <2>4. opener'[o] = x BY <2>1, InvFacts
  <2>5. DidBefore(o)'
    BY <1>0, <1>n, <1>6, <2>3, <2>4, DidStays DEF DidBefore
  <2>6. LackSound(o)'
    <3>1. opener'[o].pc = n /\ opener'[o].lacks = left BY <2>3, <2>4
    <3>2. \A k \in DOMAIN Statements[n].cols : k \in left \/ ColumnOf(n, k) \in columns'
      BY <1>1, <1>5, <1>l
    <3>3. opener'[o].contested \/ \A k \in left : ColumnOf(n, k) \notin columns'
      BY <1>1, <1>2, <1>3, <1>5, <1>l, <2>3, <2>4
    <3> QED BY <1>1, <1>11, <2>2, <3>1, <3>2, <3>3 DEF LackSound
  <2>7. OpenerSound(o)'
    BY <2>3, <2>4, <2>5, <2>6 DEF OpenerSound, EndSound
  <2> QED BY <1>0, <1>5, <1>6, <1>7, <2>1, <2>3, <2>7, StepSound
<1>12. CASE ColumnOf(n, next) \in columns /\ Statements[n].does = "try"
  <2>1. opener' = [opener EXCEPT ![o] = Following(o)]
    BY <1>n, <1>4, <1>12 DEF Alters, Becomes, Now
  <2> QED BY <1>8, <1>9, <1>12, <2>1
<1>13. CASE ColumnOf(n, next) \in columns /\ Statements[n].does # "try"
  <2>x. PICK x : x = [opener[o] EXCEPT !.at = "failed"] OBVIOUS
  <2>1. opener' = [opener EXCEPT ![o] = x]
    BY <1>n, <1>4, <1>13, <2>x DEF Alters, Becomes, Now
  <2>2. x \in OpenerShape /\ x.at = "failed" /\ x.contested = opener[o].contested
    BY <1>0, <2>x DEF OpenerShape
  <2>3. opener'[o] = x BY <2>1, InvFacts
  <2>4. OpenerSound(o)'
    BY <1>8, <1>13, <2>2, <2>3 DEF OpenerSound, DidBefore, LackSound, EndSound
  <2> QED BY <1>0, <1>5, <1>6, <1>7, <2>1, <2>2, <2>4, StepSound
<1> QED BY <1>10, <1>11, <1>12, <1>13

LEMMA FillsSound ==
  ASSUME MigrationInv, NEW o \in Openers, Fills(o)
  PROVE  MigrationInv'
<1>n. PICK n \in 1 .. 32 : n = opener[o].pc
  BY InvFacts, SourceIsColumn DEF Fills, NowAt
<1>1. /\ opener[o].at = "migrating" /\ Migrating(o) /\ Statements[n].does \in Filling
      /\ tables' = tables /\ columns' = columns /\ crashes' = crashes
  BY <1>n DEF Fills, NowAt, Now, Migrating, Filling
<1>r. PICK rows : rows = {s \in stale : s[1] \in Statements[n].on}
  OBVIOUS
<1>2. /\ opener[o] \in OpenerShape /\ OpenerSound(o) /\ DidBefore(o)
      /\ tables' \subseteq AllTables /\ \A c \in columns' : c \in AllColumns /\ c[1] \in tables'
  BY <1>1, InvFacts DEF OpenerSound
<1>3. \/ (\E row \in rows : stale' = stale \ {row}) /\ opener' = opener
      \/ /\ stale' = IF Statements[n].does = "deleteFromOld" /\ ~opener[o].had THEN stale ELSE stale \ rows
         /\ Becomes(o, Following(o))
  BY <1>n, <1>r DEF Fills, Now
<1>4. DatabaseGrows BY <1>1, <1>3 DEF DatabaseGrows
<1>5. CASE opener' = opener
  <2>1. opener' = [opener EXCEPT ![o] = opener[o]] BY <1>5, InvFacts
  <2>2. DidBefore(o)'
    BY <1>2, <1>4, <1>5, DidStays DEF DidBefore
  <2>3. LackSound(o)' /\ EndSound(o)'
    BY <1>1, <1>5 DEF LackSound, EndSound
  <2>4. OpenerSound(o)' BY <2>2, <2>3 DEF OpenerSound
  <2> QED BY <1>1, <1>2, <1>4, <2>1, <2>4, StepSound
<1>6. CASE /\ stale' = IF Statements[n].does = "deleteFromOld" /\ ~opener[o].had THEN stale ELSE stale \ rows
           /\ Becomes(o, Following(o))
  <2>x. PICK x : x = Following(o) OBVIOUS
  <2>1. opener' = [opener EXCEPT ![o] = x] BY <1>6, <2>x DEF Becomes
  <2>2. /\ x \in OpenerShape /\ x.at = "migrating" /\ x.pc = n + 1 /\ x.had = opener[o].had
        /\ x.contested = opener[o].contested
    BY <1>n, <2>x, FollowingIs
  <2>3. opener'[o] = x BY <2>1, InvFacts
  <2>4. \A r \in stale' : r[1] \notin Statements[n].on
    <3>1. CASE Statements[n].does = "deleteFromOld" /\ ~opener[o].had
      <4>1. Statements[n].on = {"legacy"} /\ LooksAtOld(n)
        BY <3>1, StatementsOrdered DEF StatementsInOrder
      <4>2. PICK j \in 1 .. n - 1 : Statements[j].does = "create" /\ SourceColumn[1] \in Statements[j].on
        BY <4>1 DEF LooksAtOld
      <4>3. Did(o, j)
        BY <1>n, <1>1, <1>2 DEF DidBefore
      <4>4. \A r \in stale : r[1] # "legacy"
        BY <3>1, <4>2, <4>3 DEF Did, OldOrWithSource
      <4> QED BY <1>6, <3>1, <4>1, <4>4
    <3>2. CASE ~(Statements[n].does = "deleteFromOld" /\ ~opener[o].had)
      BY <1>6, <1>r, <3>2
    <3> QED BY <3>1, <3>2
  <2>5. Did(o, n)'
    BY <1>1, <2>4 DEF Did, Filling, Adding
  <2>6. OpenerSound(o)'
    BY <1>n, <1>1, <1>4, <2>2, <2>3, <2>5, FollowingSound
  <2> QED BY <1>1, <1>2, <1>4, <2>1, <2>2, <2>6, StepSound
<1> QED BY <1>3, <1>5, <1>6

LEMMA IndexedSound ==
  ASSUME MigrationInv, NEW o \in Openers, Indexed(o)
  PROVE  MigrationInv'
<1>n. PICK n \in 1 .. 32 : n = opener[o].pc
  BY InvFacts, SourceIsColumn DEF Indexed, NowAt
<1>1. /\ opener[o].at = "migrating" /\ Migrating(o) /\ Statements[n].does = "index"
      /\ tables' = tables /\ columns' = columns /\ stale' = stale /\ crashes' = crashes
  BY <1>n DEF Indexed, NowAt, Now, Migrating
<1>2. /\ opener[o] \in OpenerShape /\ DidBefore(o)
      /\ tables' \subseteq AllTables /\ \A c \in columns' : c \in AllColumns /\ c[1] \in tables'
  BY <1>1, InvFacts DEF OpenerSound
<1>3. <<Table(o), Now(o).cols[1]>> \in columns
  <2>1. PICK j \in 1 .. n - 1 :
          /\ Statements[j].does = "add" /\ Statements[j].on = Statements[n].on
          /\ \E k \in DOMAIN Statements[j].cols : Statements[j].cols[k] = Statements[n].cols[1]
    <3>1. IndexAfterColumn(n) BY <1>1, StatementsOrdered DEF StatementsInOrder
    <3> QED BY <3>1 DEF IndexAfterColumn
  <2>2. PICK k \in DOMAIN Statements[j].cols : Statements[j].cols[k] = Statements[n].cols[1]
    BY <2>1
  <2>3. Did(o, j) BY <1>n, <1>1, <1>2 DEF DidBefore
  <2>4. ColumnOf(j, k) \in columns BY <2>1, <2>2, <2>3 DEF Did, HasColumns
  <2> QED BY <1>n, <2>1, <2>2, <2>4 DEF ColumnOf, Table, Now
<1>4. Becomes(o, Following(o)) BY <1>3 DEF Indexed
<1>x. PICK x : x = Following(o) OBVIOUS
<1>5. opener' = [opener EXCEPT ![o] = x] BY <1>4, <1>x DEF Becomes
<1>6. /\ x \in OpenerShape /\ x.at = "migrating" /\ x.pc = n + 1 /\ x.had = opener[o].had
      /\ x.contested = opener[o].contested
  BY <1>n, <1>x, FollowingIs
<1>7. opener'[o] = x BY <1>5, InvFacts
<1>8. Did(o, n)' BY <1>1 DEF Did, Filling
<1>9. DatabaseGrows BY <1>1 DEF DatabaseGrows
<1>10. OpenerSound(o)' BY <1>n, <1>1, <1>9, <1>6, <1>7, <1>8, FollowingSound
<1> QED BY <1>1, <1>2, <1>5, <1>6, <1>9, <1>10, StepSound

LEMMA OpenedSound ==
  ASSUME MigrationInv, NEW o \in Openers, Opened(o)
  PROVE  MigrationInv'
<1>x. PICK x : x = [opener[o] EXCEPT !.at = "open"] OBVIOUS
<1>1. /\ opener[o].at = "migrating" /\ Migrating(o) /\ opener[o].pc = 33
      /\ tables' = tables /\ columns' = columns /\ stale' = stale /\ crashes' = crashes
      /\ opener' = [opener EXCEPT ![o] = x]
  BY <1>x, InvFacts, SourceIsColumn DEF Opened, Migrating, Becomes
<1>2. /\ opener[o] \in OpenerShape /\ DidBefore(o)
      /\ tables' \subseteq AllTables /\ \A c \in columns' : c \in AllColumns /\ c[1] \in tables'
  BY <1>1, InvFacts DEF OpenerSound
<1>3. /\ x \in OpenerShape /\ x.at = "open" /\ x.pc = 33 /\ x.had = opener[o].had
      /\ x.contested = opener[o].contested
  BY <1>1, <1>2, <1>x DEF OpenerShape
<1>4. opener'[o] = x BY <1>1, InvFacts
<1>5. DatabaseGrows BY <1>1 DEF DatabaseGrows
<1>6. DidBefore(o)' BY <1>1, <1>2, <1>3, <1>4, <1>5, DidStays DEF DidBefore
<1>7. OpenerSound(o)' BY <1>3, <1>4, <1>6 DEF OpenerSound, LackSound, EndSound
<1> QED BY <1>1, <1>2, <1>3, <1>5, <1>7, StepSound

\* A process that notices another's opening knows no less for it.
LEMMA ContestedSound ==
  ASSUME MigrationInv, DatabaseGrows, NEW q \in Openers, opener'[q] \in OpenerShape,
         opener'[q].at = opener[q].at, opener'[q].pc = opener[q].pc, opener'[q].lacks = opener[q].lacks,
         opener'[q].had = opener[q].had, opener[q].contested => opener'[q].contested,
         tables' = tables, columns' = columns
  PROVE  OpenerSound(q)'
<1>0. OpenerSound(q) BY DEF MigrationInv
<1>1. DidBefore(q)' BY <1>0, DidStays DEF OpenerSound, DidBefore
<1>2. LackSound(q)'
  <2>1. SUFFICES ASSUME opener[q].at = "adding" PROVE LackSound(q)'
    BY DEF LackSound
  <2>2. LackSound(q) BY <1>0 DEF OpenerSound
  <2> QED BY <2>1, <2>2 DEF LackSound, ColumnOf
<1>3. EndSound(q)' BY <1>0 DEF OpenerSound, EndSound
<1> QED BY <1>1, <1>2, <1>3 DEF OpenerSound

LEMMA OpensSound ==
  ASSUME MigrationInv, NEW o \in Openers, Opens(o)
  PROVE  MigrationInv'
<1>1. /\ ~Migrating(o)
      /\ tables' = tables /\ columns' = columns /\ stale' = stale /\ crashes' = crashes
      /\ opener \in [Openers -> OpenerShape]
  BY InvFacts DEF Opens, Migrating
<1>c. PICK c \in BOOLEAN : c = \E q \in Openers \ {o} : Migrating(q)
  OBVIOUS
<1>x. PICK x : x = [Closed EXCEPT !.at = "migrating", !.contested = c]
  OBVIOUS
<1>2. /\ x \in OpenerShape /\ x.at = "migrating" /\ x.pc = 1 /\ x.contested = c
  <2>1. Closed \in OpenerShape BY SourceIsColumn DEF Closed, OpenerShape
  <2>2. Closed.pc = 1 BY DEF Closed
  <2> QED BY <1>x, <2>1, <2>2 DEF OpenerShape
<1>3. opener' = [p \in Openers |->
         IF p = o THEN x ELSE IF Migrating(p) THEN [opener[p] EXCEPT !.contested = TRUE] ELSE opener[p]]
  BY <1>c, <1>x DEF Opens
<1>4. opener'[o] = x BY <1>3
<1>5. ASSUME NEW q \in Openers, q # o
      PROVE /\ opener'[q] \in OpenerShape
            /\ opener'[q].at = opener[q].at /\ opener'[q].pc = opener[q].pc
            /\ opener'[q].lacks = opener[q].lacks /\ opener'[q].had = opener[q].had
            /\ opener[q].contested => opener'[q].contested
            /\ Migrating(q) => opener'[q].contested
  <2>0. opener[q] \in OpenerShape BY <1>1
  <2>1. CASE Migrating(q)
    <3>1. opener'[q] = [opener[q] EXCEPT !.contested = TRUE] BY <1>3, <1>5, <2>1
    <3> QED BY <2>0, <3>1 DEF OpenerShape
  <2>2. CASE ~Migrating(q)
    <3>1. opener'[q] = opener[q] BY <1>3, <1>5, <2>2
    <3> QED BY <2>0, <2>2, <3>1
  <2> QED BY <2>1, <2>2
<1>6. DatabaseGrows BY <1>1 DEF DatabaseGrows
<1>7. OpenerSound(o)'
  BY <1>2, <1>4 DEF OpenerSound, DidBefore, LackSound, EndSound
<1>8. \A q \in Openers : OpenerSound(q)'
  <2>1. ASSUME NEW q \in Openers, q # o PROVE OpenerSound(q)'
    BY <1>1, <1>5, <1>6, <2>1, ContestedSound
  <2> QED BY <1>7, <2>1
<1>9. TogetherContested'
  <2>1. ASSUME NEW p \in Openers, NEW q \in Openers, p # q, Migrating(p)', Migrating(q)'
        PROVE opener'[p].contested
    <3>1. CASE p = o
      <4>1. q # o /\ Migrating(q)
        BY <1>5, <2>1, <3>1 DEF Migrating
      <4> QED BY <1>2, <1>4, <1>c, <3>1, <4>1
    <3>2. CASE p # o
      <4>1. Migrating(p) BY <1>5, <2>1, <3>2 DEF Migrating
      <4> QED BY <1>5, <3>2, <4>1
    <3> QED BY <3>1, <3>2
  <2> QED BY <2>1 DEF TogetherContested
<1>10. MigrationTypeOK'
  <2>1. opener' \in [Openers -> OpenerShape]
    <3>1. \A q \in Openers : opener'[q] \in OpenerShape BY <1>2, <1>4, <1>5
    <3>2. opener' = [q \in Openers |-> opener'[q]] BY <1>3
    <3> QED BY <3>1, <3>2
  <2> QED BY <1>1, <2>1 DEF MigrationInv, MigrationTypeOK
<1>11. RowsHaveHome' BY <1>1 DEF MigrationInv, RowsHaveHome
<1> QED BY <1>8, <1>9, <1>10, <1>11 DEF MigrationInv

LEMMA OpenerDiesSound ==
  ASSUME MigrationInv, NEW o \in Openers, OpenerDies(o)
  PROVE  MigrationInv'
<1>1. /\ opener' = [opener EXCEPT ![o] = Closed] /\ Migrating(o)
      /\ tables' = tables /\ columns' = columns /\ stale' = stale /\ crashes' = crashes + 1
      /\ crashes < MaxCrashes /\ opener \in [Openers -> OpenerShape]
  BY InvFacts DEF OpenerDies, Becomes
<1>2. Closed \in OpenerShape /\ Closed.at = "closed"
  BY SourceIsColumn DEF Closed, OpenerShape
<1>3. opener'[o] = Closed /\ \A q \in Openers : q # o => opener'[q] = opener[q]
  BY <1>1
<1>4. DatabaseGrows BY <1>1 DEF DatabaseGrows
<1>5. \A q \in Openers : OpenerSound(q)'
  <2>1. OpenerSound(o)'
    BY <1>2, <1>3 DEF OpenerSound, DidBefore, LackSound, EndSound
  <2>2. ASSUME NEW q \in Openers, q # o PROVE OpenerSound(q)'
    BY <1>1, <1>3, <1>4, <2>2, OthersSound
  <2> QED BY <2>1, <2>2
<1>6. TogetherContested'
  <2>1. ~Migrating(o)' BY <1>2, <1>3 DEF Migrating
  <2>2. \A q \in Openers : q # o => (Migrating(q)' <=> Migrating(q)) /\ opener'[q] = opener[q]
    BY <1>3 DEF Migrating
  <2> QED BY <2>1, <2>2 DEF MigrationInv, TogetherContested
<1>7. MigrationTypeOK'
  <2>1. opener' \in [Openers -> OpenerShape] BY <1>1, <1>2
  <2>2. crashes \in 0 .. MaxCrashes BY DEF MigrationInv, MigrationTypeOK
  <2>3. crashes' \in 0 .. MaxCrashes BY <1>1, <2>2, CrashesAreBounded
  <2> QED BY <1>1, <2>1, <2>3 DEF MigrationInv, MigrationTypeOK
<1>8. RowsHaveHome' BY <1>1 DEF MigrationInv, RowsHaveHome
<1> QED BY <1>5, <1>6, <1>7, <1>8 DEF MigrationInv

LEMMA MigrationStartsSound == MigrationInit => MigrationInv
<1> SUFFICES ASSUME MigrationInit PROVE MigrationInv
  OBVIOUS
<1>1. PICK old \in OldDatabases : MigrationStarts(old) BY DEF MigrationInit
<1>2. /\ tables \subseteq AllTables /\ columns \subseteq {c \in AllColumns : c[1] \in tables}
      /\ stale \subseteq {s \in Kinds \X Rows : HomeOf[s[1]] \in tables}
  BY <1>1, OldDatabasesAreOurs DEF MigrationStarts
<1>3. Closed \in OpenerShape /\ Closed.at = "closed"
  BY SourceIsColumn DEF Closed, OpenerShape
<1>4. opener = [o \in Openers |-> Closed] /\ crashes = 0 BY <1>1 DEF MigrationStarts
<1>5. MigrationTypeOK BY <1>2, <1>3, <1>4, CrashesAreBounded DEF MigrationTypeOK
<1>6. RowsHaveHome BY <1>2 DEF RowsHaveHome
<1>7. \A o \in Openers : opener[o].at = "closed" BY <1>3, <1>4
<1>8. TogetherContested BY <1>7 DEF TogetherContested, Migrating
<1>9. \A o \in Openers : OpenerSound(o)
  BY <1>7 DEF OpenerSound, DidBefore, LackSound, EndSound
<1> QED BY <1>5, <1>6, <1>8, <1>9 DEF MigrationInv

LEMMA MigrationStepsSound == MigrationInv /\ [MigrationNext]_migrationVars => MigrationInv'
<1> SUFFICES ASSUME MigrationInv, [MigrationNext]_migrationVars PROVE MigrationInv'
  OBVIOUS
<1>1. CASE MigrationNext
  <2>1. PICK o \in Openers : \/ Opens(o) \/ Creates(o) \/ LooksUp(o) \/ Alters(o) \/ Fills(o)
                             \/ Indexed(o) \/ Opened(o) \/ OpenerDies(o)
    BY <1>1 DEF MigrationNext
  <2> QED BY <2>1, OpensSound, CreatesSound, LooksUpSound, AltersSound, FillsSound, IndexedSound,
             OpenedSound, OpenerDiesSound
<1>2. CASE UNCHANGED migrationVars
  <2>1. tables' = tables /\ columns' = columns /\ stale' = stale /\ opener' = opener /\ crashes' = crashes
    BY <1>2 DEF migrationVars
  <2>2. MigrationTypeOK' /\ RowsHaveHome' /\ TogetherContested'
    BY <2>1 DEF MigrationInv, MigrationTypeOK, RowsHaveHome, TogetherContested, Migrating
  <2>3. ASSUME NEW o \in Openers PROVE OpenerSound(o)'
    <3>1. DatabaseGrows /\ opener'[o] \in OpenerShape BY <2>1, InvFacts DEF DatabaseGrows
    <3> QED BY <2>1, <3>1, ContestedSound
  <2> QED BY <2>2, <2>3 DEF MigrationInv
<1> QED BY <1>1, <1>2

LEMMA MigrationInvariant == MigrationSpec => []MigrationInv
BY MigrationStartsSound, MigrationStepsSound, PTL DEF MigrationSpec

\* What all 32 statements have done.
LEMMA OpenMeansWhole == MigrationInv => OpenedIsWhole
<1> SUFFICES ASSUME MigrationInv, NEW o \in Openers
    PROVE /\ opener[o].at = "open" =>
               /\ tables = AllTables /\ stale = {}
               /\ columns # AllColumns => opener[o].contested /\ AllColumns \ columns \subseteq Forgiven
          /\ opener[o].at = "failed" => opener[o].contested
  BY DEF OpenedIsWhole
<1>1. OpenerSound(o) /\ tables \subseteq AllTables /\ columns \subseteq AllColumns BY InvFacts
<1>2. ASSUME opener[o].at = "open"
      PROVE /\ tables = AllTables /\ stale = {}
            /\ columns # AllColumns => opener[o].contested /\ AllColumns \ columns \subseteq Forgiven
  <2>1. \A i \in 1 .. 32 : Did(o, i)
    BY <1>1, <1>2 DEF OpenerSound, EndSound, DidBefore
  <2>2. AllTables \subseteq tables
    <3>1. ASSUME NEW t \in AllTables PROVE t \in tables
      <4>1. PICK i \in DOMAIN Statements : Statements[i].does = "create" /\ t \in Statements[i].on
        BY <3>1 DEF AllTables
      <4>2. i \in 1 .. 32 BY SourceIsColumn
      <4> QED BY <2>1, <4>1, <4>2 DEF Did
    <3> QED BY <3>1
  <2>3. stale = {}
    <3>1. ASSUME NEW r \in stale PROVE FALSE
      <4>1. r[1] \in Kinds BY DEF MigrationInv, RowsHaveHome
      <4>2. PICK i \in 1 .. 32 : Statements[i].does \in Filling /\ r[1] \in Statements[i].on
        BY <4>1, KindsFilled DEF EachKindFilled
      <4> QED BY <2>1, <4>2 DEF Did
    <3> QED BY <3>1
  <2>4. ASSUME NEW c \in AllColumns, c \notin columns PROVE opener[o].contested /\ c \in Forgiven
    <3>1. PICK i \in 1 .. 32 : /\ Statements[i].does \in Adding
                               /\ \E k \in DOMAIN Statements[i].cols : c = ColumnOf(i, k)
                               /\ Statements[i].does = "try" => c \in Forgiven
      BY ColumnsAre
    <3>2. ~HasColumns(i) BY <2>4, <3>1 DEF HasColumns
    <3>3. Did(o, i) BY <2>1
    <3>4. Statements[i].does = "try" /\ opener[o].contested BY <3>1, <3>2, <3>3 DEF Did, Adding
    <3> QED BY <3>1, <3>4
  <2>5. columns # AllColumns => opener[o].contested /\ AllColumns \ columns \subseteq Forgiven
    <3>1. columns # AllColumns => \E c \in AllColumns : c \notin columns BY <1>1
    <3> QED BY <2>4, <3>1
  <2> QED BY <1>1, <2>2, <2>3, <2>5
<1>3. opener[o].at = "failed" => opener[o].contested BY <1>1 DEF OpenerSound, EndSound
<1> QED BY <1>2, <1>3

\* The database only ever has tables, columns and rows of the program's, and a column
\* only with its table, wherever an opening died.
THEOREM MigrationTypeCorrect == MigrationSpec => []MigrationTypeOK
<1>1. MigrationInv => MigrationTypeOK BY DEF MigrationInv
<1> QED BY <1>1, MigrationInvariant, PTL

\* Whatever version left the database, however many processes open it at once and
\* however many openings died half-way: who has opened it finds all tables and no old
\* row, and every column unless another migrated at the same time (createDatabase).
THEOREM OpenedIsWholeHolds == MigrationSpec => []OpenedIsWhole
BY OpenMeansWhole, MigrationInvariant, PTL

-----------------------------------------------------------------------------
(* The circuit breaker and the watchdog                                    *)

\* The first n rows of a history that a provider wrote in a phase and that count.
Written(L, p, n) == {i \in 1 .. n : /\ L[i].phase = p /\ L[i].by = "provider"
                                  /\ ~L[i].free /\ ~L[i].unseen}

CallLives == goal.at \in {"head", "repair", "executing"}

\* The counters know every row of a provider that counts and every failure a
\* provider reported.
CountsAll(b, L, n) == \A p \in GuardPhases : Cardinality(Written(L, p, n)) <= b.count[p]
NotesAll(b, L, n) ==
  \A i \in 1 .. n : L[i].status = "failed" /\ ~L[i].free /\ ~L[i].unseen /\ L[i].says \in Says =>
                      b.repeats[<<L[i].phase, L[i].says>>] >= 1

\* The rows the counters are to know: the one that is being written is not counted.
Settled == IF goal.at = "executing" THEN Len(log) - 1 ELSE Len(log)

CountersSound == CallLives => CountsAll(breaker, log, Settled) /\ NotesAll(breaker, log, Settled)

\* Where the call is.
PlaceSound ==
  /\ goal.ending # "none" => goal.at = "over"
  /\ goal.at = "repair" => goal.phase = "testing"
  /\ goal.at \in {"repair", "executing"} => ~AtCeiling(goal.phase)
  /\ goal.at = "executing" => /\ log # <<>> /\ LatestStep.status = "running"
                              /\ LatestStep.phase = goal.phase /\ LatestStep.by = "provider"
                              /\ ~LatestStep.unseen

RecoveriesSound == \A p \in GuardPhases : recoveries[p].pending <= recoveries[p].granted

GuardInv ==
  /\ GuardTypeOK /\ log \in Seq(LogRows) /\ PlaceSound /\ RecoveriesSound
  /\ CountersSound /\ CeilingHolds /\ RepeatsAreNoticed /\ LoopsAreReal

-----------------------------------------------------------------------------
LEMMA WrittenIsCounted ==
  ASSUME NEW L, NEW p, NEW n \in Nat
  PROVE  IsFiniteSet(Written(L, p, n)) /\ Cardinality(Written(L, p, n)) \in Nat
<1>1. IsFiniteSet(1 .. n) BY FS_Interval
<1>2. Written(L, p, n) \subseteq 1 .. n BY DEF Written
<1> QED BY <1>1, <1>2, FS_Subset, FS_CardinalityType

\* One row more.
LEMMA WrittenGrows ==
  ASSUME NEW L, NEW p, NEW n \in Nat
  PROVE  /\ Cardinality(Written(L, p, n + 1)) <= Cardinality(Written(L, p, n)) + 1
         /\ ~(/\ L[n + 1].phase = p /\ L[n + 1].by = "provider"
              /\ ~L[n + 1].free /\ ~L[n + 1].unseen) => Written(L, p, n + 1) = Written(L, p, n)
<1>1. Written(L, p, n + 1) \subseteq Written(L, p, n) \cup {n + 1}
  BY DEF Written
<1>2. IsFiniteSet(Written(L, p, n)) /\ Cardinality(Written(L, p, n)) \in Nat
  BY WrittenIsCounted
<1>3. /\ IsFiniteSet(Written(L, p, n) \cup {n + 1})
      /\ Cardinality(Written(L, p, n) \cup {n + 1}) \in Nat
      /\ Cardinality(Written(L, p, n) \cup {n + 1}) <= Cardinality(Written(L, p, n)) + 1
  <2>1. n + 1 \notin Written(L, p, n) BY DEF Written
  <2> QED BY <1>2, <2>1, FS_AddElement
<1>4. Cardinality(Written(L, p, n + 1)) <= Cardinality(Written(L, p, n) \cup {n + 1})
  BY <1>1, <1>3, FS_Subset
<1>5. Cardinality(Written(L, p, n + 1)) \in Nat
  <2>1. n + 1 \in Nat OBVIOUS
  <2> QED BY <2>1, WrittenIsCounted
<1>6. ASSUME ~(L[n + 1].phase = p /\ L[n + 1].by = "provider" /\ ~L[n + 1].free /\ ~L[n + 1].unseen)
      PROVE  Written(L, p, n + 1) = Written(L, p, n)
  BY <1>6 DEF Written
<1> QED BY <1>2, <1>3, <1>4, <1>5, <1>6

LEMMA WrittenAgrees ==
  ASSUME NEW L, NEW M, NEW p, NEW n, \A i \in 1 .. n : L[i] = M[i]
  PROVE  Written(L, p, n) = Written(M, p, n)
BY DEF Written

-----------------------------------------------------------------------------
\* The counters only grow while they live.
Exceeds(c, b) ==
  /\ c \in Breakers
  /\ \A p \in GuardPhases : b.count[p] <= c.count[p]
  /\ \A f \in GuardPhases \X Texts : b.repeats[f] <= c.repeats[f]

LEMMA FreshCounts == Fresh \in Breakers
<1>1. /\ [p \in GuardPhases |-> 0] \in [GuardPhases -> Nat]
      /\ [f \in GuardPhases \X Texts |-> 0] \in [GuardPhases \X Texts -> Nat]
  OBVIOUS
<1> QED BY <1>1 DEF Fresh, Breakers

LEMMA Counted1Counts ==
  ASSUME NEW b \in Breakers, NEW p \in GuardPhases
  PROVE  /\ Exceeds(Counted1(b, p), b)
         /\ Counted1(b, p).count[p] = b.count[p] + 1
         /\ Counted1(b, p).repeats = b.repeats
<1>c. PICK count : count = [b.count EXCEPT ![p] = @ + 1] OBVIOUS
<1>1. b.count \in [GuardPhases -> Nat] /\ b.repeats \in [GuardPhases \X Texts -> Nat]
  BY DEF Breakers
<1>2. /\ count \in [GuardPhases -> Nat] /\ count[p] = b.count[p] + 1
      /\ \A q \in GuardPhases : b.count[q] <= count[q]
  BY <1>c, <1>1
<1>3. Counted1(b, p) = [b EXCEPT !.count = count]
  BY <1>c DEF Counted1
<1>4. Counted1(b, p) \in Breakers /\ Counted1(b, p).count = count /\ Counted1(b, p).repeats = b.repeats
  BY <1>2, <1>3 DEF Breakers
<1>5. \A f \in GuardPhases \X Texts : b.repeats[f] <= b.repeats[f]
  BY <1>1
<1> QED BY <1>2, <1>4, <1>5 DEF Exceeds

LEMMA WithFailureCounts ==
  ASSUME NEW b \in Breakers, NEW p \in GuardPhases, NEW says \in Texts, NEW blamed \in BOOLEAN
  PROVE  /\ Exceeds(WithFailure(b, p, says, blamed), b)
         /\ WithFailure(b, p, says, blamed).count = b.count
         /\ WithFailure(b, p, says, blamed).repeats[<<p, says>>] = b.repeats[<<p, says>>] + 1
<1>r. PICK repeats : repeats = [b.repeats EXCEPT ![<<p, says>>] = @ + 1] OBVIOUS
<1>t. PICK total : total = IF blamed THEN b.total + 1 ELSE b.total OBVIOUS
<1>i. PICK inRow : inRow = IF blamed THEN b.inRow + 1 ELSE 0 OBVIOUS
<1>1. b.count \in [GuardPhases -> Nat] /\ b.repeats \in [GuardPhases \X Texts -> Nat]
  BY DEF Breakers
<1>2. <<p, says>> \in GuardPhases \X Texts OBVIOUS
<1>3. /\ repeats \in [GuardPhases \X Texts -> Nat] /\ repeats[<<p, says>>] = b.repeats[<<p, says>>] + 1
      /\ \A f \in GuardPhases \X Texts : b.repeats[f] <= repeats[f]
  BY <1>r, <1>1, <1>2
<1>4. total \in Nat /\ inRow \in Nat
  BY <1>t, <1>i DEF Breakers
<1>5. WithFailure(b, p, says, blamed) = [b EXCEPT !.repeats = repeats, !.total = total, !.inRow = inRow]
  BY <1>r, <1>t, <1>i DEF WithFailure
<1>6. /\ WithFailure(b, p, says, blamed) \in Breakers
      /\ WithFailure(b, p, says, blamed).count = b.count
      /\ WithFailure(b, p, says, blamed).repeats = repeats
  BY <1>3, <1>4, <1>5 DEF Breakers
<1>7. \A q \in GuardPhases : b.count[q] <= b.count[q]
  BY <1>1
<1> QED BY <1>3, <1>6, <1>7 DEF Exceeds

LEMMA ExceedsTransitively ==
  ASSUME NEW a \in Breakers, NEW b, NEW c, Exceeds(b, a), Exceeds(c, b)
  PROVE  Exceeds(c, a)
<1>1. ASSUME NEW p \in GuardPhases PROVE a.count[p] <= c.count[p]
  <2>1. a.count[p] \in Nat /\ b.count[p] \in Nat /\ c.count[p] \in Nat BY DEF Exceeds, Breakers
  <2> QED BY <2>1 DEF Exceeds
<1>2. ASSUME NEW f \in GuardPhases \X Texts PROVE a.repeats[f] <= c.repeats[f]
  <2>1. a.repeats[f] \in Nat /\ b.repeats[f] \in Nat /\ c.repeats[f] \in Nat BY DEF Exceeds, Breakers
  <2> QED BY <2>1 DEF Exceeds
<1> QED BY <1>1, <1>2 DEF Exceeds

\* Every row but a self-recovery is counted, and every failure noted.
LEMMA ReplayedCounts ==
  ASSUME NEW b \in Breakers, NEW row \in LogRows
  PROVE  /\ Exceeds(Replayed(b, row), b)
         /\ ~row.free => Replayed(b, row).count[row.phase] = b.count[row.phase] + 1
         /\ row.status = "failed" /\ ~row.free => Replayed(b, row).repeats[<<row.phase, row.says>>] >= 1
<1>0. row.phase \in GuardPhases /\ row.says \in Texts /\ row.free \in BOOLEAN
  BY DEF LogRows
<1>c. PICK counted : counted = Counted1(b, row.phase) OBVIOUS
<1>1. /\ Exceeds(counted, b) /\ counted.count[row.phase] = b.count[row.phase] + 1
      /\ counted \in Breakers
  BY <1>0, <1>c, Counted1Counts DEF Exceeds
<1>2. CASE row.free
  <2>1. Replayed(b, row) = b BY <1>2 DEF Replayed
  <2>2. Exceeds(b, b)
    <3>1. \A p \in GuardPhases : b.count[p] <= b.count[p] BY DEF Breakers
    <3>2. \A f \in GuardPhases \X Texts : b.repeats[f] <= b.repeats[f] BY DEF Breakers
    <3> QED BY <3>1, <3>2 DEF Exceeds
  <2> QED BY <1>2, <2>1, <2>2
<1>3. CASE ~row.free /\ row.status = "failed"
  <2>b. PICK blamed \in BOOLEAN : blamed <=> row.says \in Faults
    <3>1. CASE row.says \in Faults BY <3>1
    <3>2. CASE row.says \notin Faults BY <3>2
    <3> QED BY <3>1, <3>2
  <2>1. Replayed(b, row) = WithFailure(counted, row.phase, row.says, blamed)
    <3>1. Replayed(b, row) = WithFailure(counted, row.phase, row.says, row.says \in Faults)
      BY <1>3, <1>c DEF Replayed
    <3>2. (row.says \in Faults) = blamed BY <2>b
    <3> QED BY <3>1, <3>2 DEF WithFailure
  <2>2. /\ Exceeds(Replayed(b, row), counted) /\ Replayed(b, row).count = counted.count
        /\ Replayed(b, row).repeats[<<row.phase, row.says>>] = counted.repeats[<<row.phase, row.says>>] + 1
    BY <1>0, <1>1, <2>1, WithFailureCounts
  <2>3. counted.repeats[<<row.phase, row.says>>] \in Nat
    BY <1>0, <1>1 DEF Breakers
  <2> QED BY <1>1, <2>2, <2>3, ExceedsTransitively
<1>4. CASE ~row.free /\ row.status = "completed"
  <2>1. Replayed(b, row) = [counted EXCEPT !.inRow = 0]
    BY <1>4, <1>c DEF Replayed
  <2>2. /\ Replayed(b, row) \in Breakers /\ Replayed(b, row).count = counted.count
        /\ Replayed(b, row).repeats = counted.repeats
    BY <1>1, <2>1 DEF Breakers
  <2> QED BY <1>1, <1>4, <2>2 DEF Exceeds
<1>5. CASE ~row.free /\ row.status \notin {"failed", "completed"}
  <2>1. Replayed(b, row) = counted
    BY <1>5, <1>c DEF Replayed
  <2> QED BY <1>1, <1>5, <2>1
<1> QED BY <1>2, <1>3, <1>4, <1>5

\* Counters that know the first n rows know the next one if they count it and note it.
LEMMA KnowsNextRow ==
  ASSUME NEW L, NEW n \in Nat, \A i \in 1 .. n + 1 : L[i] \in LogRows, NEW row, row = L[n + 1],
         NEW b \in Breakers, NEW c, Exceeds(c, b), CountsAll(b, L, n), NotesAll(b, L, n),
         row.by = "provider" /\ ~row.free /\ ~row.unseen => c.count[row.phase] = b.count[row.phase] + 1,
         row.status = "failed" /\ ~row.free /\ ~row.unseen /\ row.says \in Says =>
           c.repeats[<<row.phase, row.says>>] >= 1
  PROVE  CountsAll(c, L, n + 1) /\ NotesAll(c, L, n + 1)
<1>1. ASSUME NEW p \in GuardPhases PROVE Cardinality(Written(L, p, n + 1)) <= c.count[p]
  <2>1. /\ Cardinality(Written(L, p, n)) \in Nat /\ Cardinality(Written(L, p, n + 1)) \in Nat
        /\ Cardinality(Written(L, p, n)) <= b.count[p] /\ b.count[p] <= c.count[p]
        /\ b.count[p] \in Nat /\ c.count[p] \in Nat
    <3>1. n + 1 \in Nat OBVIOUS
    <3> QED BY <3>1, WrittenIsCounted DEF CountsAll, Exceeds, Breakers
  <2>2. CASE row.phase = p /\ row.by = "provider" /\ ~row.free /\ ~row.unseen
    <3>1. Cardinality(Written(L, p, n + 1)) <= Cardinality(Written(L, p, n)) + 1
      BY WrittenGrows
    <3> QED BY <2>1, <2>2, <3>1
  <2>3. CASE ~(row.phase = p /\ row.by = "provider" /\ ~row.free /\ ~row.unseen)
    <3>1. Written(L, p, n + 1) = Written(L, p, n)
      BY <2>3, WrittenGrows
    <3> QED BY <2>1, <3>1
  <2> QED BY <2>2, <2>3
<1>2. ASSUME NEW i \in 1 .. n + 1, L[i].status = "failed", ~L[i].free, ~L[i].unseen, L[i].says \in Says
      PROVE  c.repeats[<<L[i].phase, L[i].says>>] >= 1
  <2>1. CASE i = n + 1
    BY <1>2, <2>1
  <2>2. CASE i # n + 1
    <3>1. i \in 1 .. n BY <2>2
    <3>x. PICK x : x = <<L[i].phase, L[i].says>> OBVIOUS
    <3>2. b.repeats[x] >= 1
      BY <1>2, <3>1, <3>x DEF NotesAll
    <3>3. x \in GuardPhases \X Texts
      BY <3>x DEF LogRows
    <3>4. b.repeats[x] \in Nat /\ c.repeats[x] \in Nat /\ b.repeats[x] <= c.repeats[x]
      BY <3>3 DEF Exceeds, Breakers
    <3> QED BY <3>2, <3>4, <3>x
  <2> QED BY <2>1, <2>2
<1> QED BY <1>1, <1>2 DEF CountsAll, NotesAll

\* What fromSteps makes of all rows.
LEMMA RebuiltCounts ==
  ASSUME GuardAssumptions, log \in Seq(LogRows)
  PROVE  Rebuilt \in Breakers /\ CountsAll(Rebuilt, log, Len(log)) /\ NotesAll(Rebuilt, log, Len(log))
<1> DEFINE n0 == Len(log)
           turn(b, i) == IF i \in 1 .. n0 THEN Replayed(b, log[i]) ELSE b
           Pass(f) == f = [i \in 0 .. n0 |-> IF i = 0 THEN Fresh ELSE Replayed(f[i - 1], log[i])]
           after == CHOOSE f : Pass(f)
           F == [x \in Nat \X Breakers |-> turn(x[2], x[1])]
<1>1. Rebuilt = after[n0]
  BY DEF Rebuilt
<1>2. n0 \in Nat /\ \A i \in 1 .. n0 : log[i] \in LogRows
  OBVIOUS
<1> HIDE DEF n0
<1>3. ASSUME NEW b \in Breakers, NEW i \in Nat PROVE turn(b, i) \in Breakers
  BY <1>2, ReplayedCounts DEF Exceeds
<1>4. F \in [Nat \X Breakers -> Breakers]
  BY <1>3
<1>5. \A i \in Nat, b \in Breakers : F[<<i, b>>] = turn(b, i)
  OBVIOUS
<1> HIDE DEF F
<1>6. PICK g : Recursive(g, Fresh, F, Breakers)
  BY <1>4, FreshCounts, Recursion
<1> DEFINE f == [i \in 0 .. n0 |-> g[i]]
<1>7. Pass(f)
  <2>1. ASSUME NEW i \in 0 .. n0 PROVE f[i] = IF i = 0 THEN Fresh ELSE Replayed(f[i - 1], log[i])
    <3>1. CASE i = 0
      BY <1>6, <3>1 DEF Recursive
    <3>2. CASE i # 0
      <4>1. i \in Nat \ {0} /\ i - 1 \in 0 .. n0 /\ i \in 1 .. n0 /\ i - 1 \in Nat
        BY <1>2, <3>2
      <4>2. g[i - 1] \in Breakers /\ g[i] = F[<<i, g[i - 1]>>]
        BY <1>6, <4>1 DEF Recursive
      <4> QED BY <1>5, <3>2, <4>1, <4>2
    <3> QED BY <3>1, <3>2
  <2> QED BY <2>1
<1> HIDE DEF f
<1>8. Pass(after)
  BY <1>7
<1> HIDE DEF after
<1>9. after[0] = Fresh /\ \A i \in 1 .. n0 : after[i] = Replayed(after[i - 1], log[i])
  BY <1>2, <1>8
<1> HIDE DEF Pass
<1> DEFINE S == {n \in Nat : n <= n0 =>
                   after[n] \in Breakers /\ CountsAll(after[n], log, n) /\ NotesAll(after[n], log, n)}
<1>10. 0 \in S
  <2>1. Fresh \in Breakers BY FreshCounts
  <2>2. CountsAll(Fresh, log, 0)
    <3>1. ASSUME NEW p \in GuardPhases PROVE Cardinality(Written(log, p, 0)) <= Fresh.count[p]
      <4>1. Written(log, p, 0) = {} BY DEF Written
      <4>2. Cardinality(Written(log, p, 0)) = 0 BY <4>1, FS_EmptySet
      <4> QED BY <4>2 DEF Fresh
    <3> QED BY <3>1 DEF CountsAll
  <2>3. NotesAll(Fresh, log, 0) BY DEF NotesAll
  <2> QED BY <1>9, <2>1, <2>2, <2>3
<1>11. ASSUME NEW n \in S PROVE n + 1 \in S
  <2> SUFFICES ASSUME n + 1 <= n0
      PROVE /\ after[n + 1] \in Breakers /\ CountsAll(after[n + 1], log, n + 1)
            /\ NotesAll(after[n + 1], log, n + 1)
    OBVIOUS
  <2>b. PICK b : b = after[n] OBVIOUS
  <2>r. PICK row : row = log[n + 1] OBVIOUS
  <2>c. PICK c : c = after[n + 1] OBVIOUS
  <2>1. n \in Nat /\ b \in Breakers /\ CountsAll(b, log, n) /\ NotesAll(b, log, n)
    BY <1>2, <2>b
  <2>2. n + 1 \in 1 .. n0 /\ (n + 1) - 1 = n BY <1>2, <2>1
  <2>3. row \in LogRows /\ c = Replayed(b, row)
    BY <1>2, <1>9, <2>2, <2>b, <2>r, <2>c
  <2>4. /\ Exceeds(c, b) /\ c \in Breakers
        /\ ~row.free => c.count[row.phase] = b.count[row.phase] + 1
        /\ row.status = "failed" /\ ~row.free => c.repeats[<<row.phase, row.says>>] >= 1
    BY <2>1, <2>3, ReplayedCounts DEF Exceeds
  <2>5. \A i \in 1 .. n + 1 : log[i] \in LogRows BY <1>2, <2>1
  <2>6. CountsAll(c, log, n + 1) /\ NotesAll(c, log, n + 1)
    BY <2>1, <2>4, <2>5, <2>r, KnowsNextRow
  <2> QED BY <2>4, <2>6, <2>c
<1> HIDE DEF S
<1>12. \A n \in Nat : n \in S
  <2>1. S \in SUBSET Nat BY DEF S
  <2> QED BY <1>10, <1>11, <2>1, Induction
<1>13. after[n0] \in Breakers /\ CountsAll(after[n0], log, n0) /\ NotesAll(after[n0], log, n0)
  BY <1>2, <1>12 DEF S
<1> QED BY <1>1, <1>13 DEF n0

\* What observe makes of the counters of a phase.
Registers(c, b, p, free, o) ==
  /\ Exceeds(c, b)
  /\ o.stop = "none" /\ ~free => c.count[p] = b.count[p] + 1
  /\ o.stop = "none" /\ ~free /\ o.outcome = "failed" =>
       c.repeats[<<p, o.says>>] = b.repeats[<<p, o.says>>] + 1

LEMMA ObservedCounts ==
  ASSUME NEW b \in Breakers, NEW p \in GuardPhases, NEW free \in BOOLEAN, NEW o \in Observations
  PROVE  /\ Exceeds(Observed(b, p, free, o), b)
         /\ o.stop = "none" /\ ~free => Observed(b, p, free, o).count[p] = b.count[p] + 1
         /\ o.stop = "none" /\ ~free /\ o.outcome = "failed" =>
              Observed(b, p, free, o).repeats[<<p, o.says>>] = b.repeats[<<p, o.says>>] + 1
<1>0. o.says \in Texts /\ o.blamed \in BOOLEAN BY DEF Observations, Texts
<1>c. PICK counted : counted = Counted1(b, p) OBVIOUS
<1>1. /\ Exceeds(counted, b) /\ counted.count[p] = b.count[p] + 1 /\ counted \in Breakers
      /\ counted.repeats = b.repeats
  BY <1>c, Counted1Counts DEF Exceeds
<1>2. CASE o.stop # "none" \/ free
  <2>1. Observed(b, p, free, o) = b BY <1>2 DEF Observed
  <2>2. Exceeds(b, b)
    <3>1. \A q \in GuardPhases : b.count[q] <= b.count[q] BY DEF Breakers
    <3>2. \A f \in GuardPhases \X Texts : b.repeats[f] <= b.repeats[f] BY DEF Breakers
    <3> QED BY <3>1, <3>2 DEF Exceeds
  <2> QED BY <1>2, <2>1, <2>2
<1>3. CASE ~(o.stop # "none" \/ free) /\ o.outcome = "failed"
  <2>1. Observed(b, p, free, o) = WithFailure(counted, p, o.says, o.blamed)
    BY <1>3, <1>c DEF Observed
  <2>2. /\ Exceeds(Observed(b, p, free, o), counted) /\ Observed(b, p, free, o).count = counted.count
        /\ Observed(b, p, free, o).repeats[<<p, o.says>>] = counted.repeats[<<p, o.says>>] + 1
    BY <1>0, <1>1, <2>1, WithFailureCounts
  <2> QED BY <1>1, <2>2, ExceedsTransitively
<1>4. CASE ~(o.stop # "none" \/ free) /\ o.outcome # "failed"
  <2>i. PICK inRow : inRow = IF o.outcome = "completed" THEN 0 ELSE counted.inRow OBVIOUS
  <2>v. PICK value : value = IF IdleStep(p, o) THEN counted.idle[p] + 1
                             ELSE IF o.moved = "changed" THEN 0 ELSE counted.idle[p] OBVIOUS
  <2>d. PICK idle : idle = [counted.idle EXCEPT ![p] = value] OBVIOUS
  <2>1. Observed(b, p, free, o) = [counted EXCEPT !.inRow = inRow, !.idle = idle]
    <3>1. counted \in [count : [GuardPhases -> Nat], idle : [GuardPhases -> Nat],
                       repeats : [GuardPhases \X Texts -> Nat], inRow : Nat, total : Nat]
      BY <1>1 DEF Breakers
    <3> QED BY <1>4, <1>c, <2>i, <2>v, <2>d, <3>1 DEF Observed
  <2>2. counted.idle \in [GuardPhases -> Nat] /\ counted.inRow \in Nat BY <1>1 DEF Breakers
  <2>3. inRow \in Nat /\ value \in Nat BY <2>2, <2>i, <2>v
  <2>4. idle \in [GuardPhases -> Nat] BY <2>2, <2>3, <2>d
  <2>5. /\ Observed(b, p, free, o) \in Breakers /\ Observed(b, p, free, o).count = counted.count
        /\ Observed(b, p, free, o).repeats = counted.repeats
    BY <1>1, <2>1, <2>3, <2>4 DEF Breakers
  <2> QED BY <1>1, <1>4, <2>5 DEF Exceeds
<1> QED BY <1>2, <1>3, <1>4

\* The history has what it blames a loop for.
LoopShown ==
  \E i, j \in 1 .. Len(log) :
    /\ i < j
    /\ SameSummary(log[i], log[j]) \/ SameFailure(log[i], log[j])
    /\ \A k \in i + 1 .. j - 1 : log[k].status # "completed"

\* Rows that follow each other among the latest have nothing but running ones between.
LEMMA PairShown ==
  ASSUME log' \in Seq(LogRows), NEW i \in Recent', NEW j \in Recent', Adjacent(i, j)',
         SameSummary(log'[i], log'[j]) \/ SameFailure(log'[i], log'[j])
  PROVE  LoopShown'
<1>1. Len(log') \in Nat OBVIOUS
<1>2. /\ i \in 1 .. Len(log') /\ i + 6 > Len(log') /\ j \in 1 .. Len(log') /\ i < j
      /\ \A k \in 1 .. Len(log') : i < k /\ k < j =>
           ~(k + 6 > Len(log') /\ log'[k].status # "running")
  BY <1>1 DEF Recent, Adjacent
<1>3. \A k \in i + 1 .. j - 1 : log'[k].status # "completed"
  <2>1. ASSUME NEW k \in i + 1 .. j - 1, log'[k].status = "completed" PROVE FALSE
    <3>1. k \in 1 .. Len(log') /\ i < k /\ k < j /\ k + 6 > Len(log') BY <1>1, <1>2
    <3> QED BY <1>2, <2>1, <3>1
  <2> QED BY <2>1
<1> QED BY <1>2, <1>3 DEF LoopShown

LEMMA SeenLoopShown ==
  ASSUME log' \in Seq(LogRows), LoopSeen'
  PROVE  LoopShown'
<1>1. CASE RepeatedFailure'
  <2>1. PICK i, j \in Recent' : Adjacent(i, j)' /\ SameFailure(log'[i], log'[j])
    BY <1>1 DEF RepeatedFailure
  <2> QED BY <2>1, PairShown
<1>2. CASE NoProgress'
  <2>1. PICK i, j \in Recent' : Adjacent(i, j)' /\ SameSummary(log'[i], log'[j])
    BY <1>2 DEF NoProgress, SameReport
  <2> QED BY <2>1, PairShown
<1>3. CASE SameDecision'
  <2>1. PICK i, j \in Recent' :
          /\ i < j /\ SameSummary(log'[i], log'[j])
          /\ \A k \in Recent' : i < k /\ k < j => StepFails(log'[k])
    BY <1>3 DEF SameDecision, StepFails
  <2>2. Len(log') \in Nat OBVIOUS
  <2>3. i \in 1 .. Len(log') /\ i + 6 > Len(log') /\ j \in 1 .. Len(log')
    BY <2>2 DEF Recent
  <2>4. ASSUME NEW k \in i + 1 .. j - 1, log'[k].status = "completed" PROVE FALSE
    <3>1. k \in 1 .. Len(log') /\ i < k /\ k < j /\ k + 6 > Len(log') BY <2>1, <2>2, <2>3
    <3>2. k \in Recent' BY <2>4, <3>1 DEF Recent
    <3> QED BY <2>1, <2>4, <3>1, <3>2 DEF StepFails
  <2> QED BY <2>1, <2>3, <2>4 DEF LoopShown
<1> QED BY <1>1, <1>2, <1>3 DEF LoopSeen

-----------------------------------------------------------------------------
\* How an iteration of the loop ends: the call waits, goes on with the counters b,
\* or is over.
Lands(b) ==
  \/ \E p \in GuardPhases : Waits(p) \/ GoesTo(p, b)
  \/ \E e \in {"loop", "stopped", "delivered"} : Ends(e) /\ (e = "loop" => LoopShown')

RecoveriesTyped == recoveries \in [GuardPhases -> [granted : 0 .. Helpers, pending : 0 .. Helpers]]

LEMMA LandingSound ==
  ASSUME GuardAssumptions, GuardInv, NEW b, Lands(b),
         goal'.at = "head" =>
           b \in Breakers /\ CountsAll(b, log', Len(log')) /\ NotesAll(b, log', Len(log')),
         smallTask' = smallTask, log' \in Seq(LogRows), decision' \in {"unasked", "none", "taken"},
         RecoveriesTyped', RecoveriesSound', CeilingHolds', RepeatsAreNoticed'
  PROVE  GuardInv'
<1>1. goal.phase \in GuardPhases
  BY DEF GuardInv, GuardTypeOK
<1>2. /\ goal' \in [at : {"waiting", "head", "over"}, phase : GuardPhases,
                    ending : {"none", "loop", "stopped", "delivered"}]
      /\ goal'.at = "head" => breaker' = b
      /\ goal'.at # "head" => breaker' = Fresh
      /\ goal'.ending # "none" => goal'.at = "over"
      /\ goal'.ending = "loop" => LoopShown'
  <2>1. CASE \E p \in GuardPhases : Waits(p) \/ GoesTo(p, b)
    BY <2>1 DEF Waits, GoesTo
  <2>2. CASE \E e \in {"loop", "stopped", "delivered"} : Ends(e) /\ (e = "loop" => LoopShown')
    <3>1. PICK e \in {"loop", "stopped", "delivered"} : Ends(e) /\ (e = "loop" => LoopShown')
      BY <2>2
    <3>2. goal' = [goal EXCEPT !.at = "over", !.ending = e] /\ breaker' = Fresh
      BY <3>1 DEF Ends
    <3>3. goal \in [at : {"waiting", "head", "repair", "executing", "over"}, phase : GuardPhases,
                    ending : {"none", "loop", "stopped", "delivered"}]
      BY DEF GuardInv, GuardTypeOK
    <3>4. /\ goal' \in [at : {"waiting", "head", "over"}, phase : GuardPhases,
                        ending : {"none", "loop", "stopped", "delivered"}]
          /\ goal'.at = "over" /\ goal'.ending = e
      BY <3>2, <3>3
    <3> QED BY <3>1, <3>2, <3>4
  <2> QED BY <2>1, <2>2 DEF Lands
<1>3. breaker' \in Breakers
  BY <1>2, FreshCounts
<1>4. GuardTypeOK'
  <2>1. \A i \in 1 .. Len(log') : log'[i] \in LogRows OBVIOUS
  <2>2. smallTask' \in BOOLEAN BY DEF GuardInv, GuardTypeOK
  <2>3. goal' \in [at : {"waiting", "head", "repair", "executing", "over"}, phase : GuardPhases,
                   ending : {"none", "loop", "stopped", "delivered"}]
    BY <1>2
  <2> QED BY <1>3, <2>1, <2>2, <2>3 DEF GuardTypeOK, RecoveriesTyped
<1>5. PlaceSound' BY <1>2 DEF PlaceSound
<1>6. CountersSound'
  <2>1. SUFFICES ASSUME goal'.at = "head"
        PROVE CountsAll(breaker', log', Len(log')) /\ NotesAll(breaker', log', Len(log'))
    BY <1>2 DEF CountersSound, CallLives, Settled
  <2> QED BY <1>2, <2>1
<1>7. LoopsAreReal' BY <1>2 DEF LoopsAreReal, LoopShown
<1> QED BY <1>4, <1>5, <1>6, <1>7 DEF GuardInv

\* What a step that leaves the history alone keeps.
LEMMA SameHistory ==
  ASSUME GuardInv, log' = log, decision' = decision
  PROVE  /\ log' \in Seq(LogRows) /\ decision' \in {"unasked", "none", "taken"}
         /\ CeilingHolds' /\ RepeatsAreNoticed'
BY DEF GuardInv, GuardTypeOK, CeilingHolds, RepeatsAreNoticed, LatestStep

LEMMA SameRecoveries ==
  ASSUME GuardInv, recoveries' = recoveries
  PROVE  RecoveriesTyped' /\ RecoveriesSound'
BY DEF GuardInv, GuardTypeOK, RecoveriesTyped, RecoveriesSound

\* How a breaker's decision ends an iteration.
LEMMA BreakLands ==
  ASSUME GuardInv, NEW reason, NEW loops, NEW b, loops => LoopShown', CircuitBreak(reason, loops)
  PROVE  Lands(b)
<1>1. goal.phase \in GuardPhases BY DEF GuardInv, GuardTypeOK
<1> QED BY <1>1 DEF CircuitBreak, Lands

LEMMA DeliveryLands == ASSUME NEW b, Delivers PROVE Lands(b)
BY DEF Delivers, Lands

LEMMA CallBeginsSound ==
  ASSUME GuardAssumptions, GuardInv, CallBegins
  PROVE  GuardInv'
<1>0. goal.phase \in GuardPhases BY DEF GuardInv, GuardTypeOK
<1>1. /\ log' = log /\ recoveries' = recoveries /\ smallTask' = smallTask /\ decision' = "unasked"
      /\ GoesTo(goal.phase, Rebuilt)
  BY DEF CallBegins
<1>2. Lands(Rebuilt) BY <1>0, <1>1 DEF Lands
<1>3. /\ Rebuilt \in Breakers /\ CountsAll(Rebuilt, log', Len(log'))
      /\ NotesAll(Rebuilt, log', Len(log'))
  BY <1>1, RebuiltCounts DEF GuardInv
<1>4. log' \in Seq(LogRows) /\ CeilingHolds' /\ RepeatsAreNoticed'
  BY <1>1 DEF GuardInv, CeilingHolds, RepeatsAreNoticed
<1> QED BY <1>1, <1>2, <1>3, <1>4, LandingSound, SameRecoveries

LEMMA BudgetEndsSound ==
  ASSUME GuardAssumptions, GuardInv, BudgetEnds
  PROVE  GuardInv'
<1>1. /\ log' = log /\ recoveries' = recoveries /\ smallTask' = smallTask /\ decision' = decision
      /\ CircuitBreak("phase_budget_exhausted", LoopSeen)
  BY DEF BudgetEnds
<1>2. LoopSeen => LoopShown'
  <2>1. LoopSeen => LoopSeen'
    <3>1. Recent' = Recent /\ \A i, j : Adjacent(i, j)' <=> Adjacent(i, j)
      BY <1>1 DEF Recent, Adjacent
    <3>2. RepeatedFailure => RepeatedFailure' BY <1>1, <3>1, Zenon DEF RepeatedFailure
    <3>3. NoProgress => NoProgress' BY <1>1, <3>1, Zenon DEF NoProgress
    <3>4. SameDecision => SameDecision' BY <1>1, <3>1, Zenon DEF SameDecision
    <3> QED BY <3>2, <3>3, <3>4 DEF LoopSeen
  <2>2. log' \in Seq(LogRows) BY <1>1 DEF GuardInv
  <2> QED BY <2>1, <2>2, SeenLoopShown
<1>3. Lands(breaker) BY <1>1, <1>2, BreakLands
<1>4. breaker \in Breakers /\ CountsAll(breaker, log', Len(log')) /\ NotesAll(breaker, log', Len(log'))
  BY <1>1 DEF BudgetEnds, GuardInv, GuardTypeOK, CountersSound, CallLives, Settled
<1> QED BY <1>1, <1>3, <1>4, LandingSound, SameHistory, SameRecoveries

LEMMA SkipsPhaseSound ==
  ASSUME GuardAssumptions, GuardInv, SkipsPhase
  PROVE  GuardInv'
<1>1. /\ log' = log /\ recoveries' = recoveries /\ smallTask' = smallTask /\ decision' = decision
      /\ goal.at = "head" /\ goal.phase \in GuardPhases
  BY DEF SkipsPhase, GuardInv, GuardTypeOK
<1>2. Lands(breaker)
  <2>1. CASE goal.phase = "reviewing" BY <2>1, DeliveryLands DEF SkipsPhase
  <2>2. CASE goal.phase # "reviewing"
    <3>1. goal.phase \in {"implementing", "testing"} BY <1>1, <2>2 DEF GuardAssumptions
    <3>2. NextGuardPhase[goal.phase] \in GuardPhases
      BY <3>1 DEF NextGuardPhase, GuardAssumptions
    <3> QED BY <2>2, <3>2 DEF SkipsPhase, Lands
  <2> QED BY <2>1, <2>2
<1>3. breaker \in Breakers /\ CountsAll(breaker, log', Len(log')) /\ NotesAll(breaker, log', Len(log'))
  BY <1>1 DEF GuardInv, GuardTypeOK, CountersSound, CallLives, Settled
<1> QED BY <1>1, <1>2, <1>3, LandingSound, SameHistory, SameRecoveries

LEMMA NobodySound ==
  ASSUME GuardAssumptions, GuardInv, NobodyForGuard
  PROVE  GuardInv'
<1>1. /\ log' = log /\ recoveries' = recoveries /\ smallTask' = smallTask /\ decision' = decision
      /\ Waits(goal.phase) /\ goal.phase \in GuardPhases
  BY DEF NobodyForGuard, GuardInv, GuardTypeOK
<1>2. Lands(breaker) /\ goal'.at # "head" BY <1>1 DEF Lands, Waits
<1> QED BY <1>1, <1>2, LandingSound, SameHistory, SameRecoveries

\* A row is written, and the latest row is written anew.
LEMMA AppendedRow ==
  ASSUME log \in Seq(LogRows), NEW row \in LogRows, log' = Append(log, row)
  PROVE  /\ Len(log) \in Nat /\ log' \in Seq(LogRows) /\ Len(log') = Len(log) + 1
         /\ log' # <<>> /\ log'[Len(log) + 1] = row /\ \A i \in 1 .. Len(log) : log'[i] = log[i]
OBVIOUS

LEMMA ReplacedRow ==
  ASSUME log \in Seq(LogRows), log # <<>>, NEW row \in LogRows, log' = WithLatest(row)
  PROVE  /\ Len(log) \in Nat \ {0} /\ log' \in Seq(LogRows) /\ Len(log') = Len(log)
         /\ log'[Len(log)] = row /\ \A i \in 1 .. Len(log) - 1 : log'[i] = log[i]
<1>n. PICK n : n = Len(log) OBVIOUS
<1>1. n \in Nat \ {0} /\ n \in 1 .. n BY <1>n
<1>2. log' = [log EXCEPT ![n] = row] BY <1>n DEF WithLatest
<1>3. log' \in Seq(LogRows) /\ Len(log') = n BY <1>1, <1>2, <1>n
<1>4. log'[n] = row BY <1>1, <1>2, <1>n
<1>5. \A i \in 1 .. n - 1 : log'[i] = log[i] BY <1>1, <1>2, <1>n
<1> QED BY <1>1, <1>3, <1>4, <1>5, <1>n

LEMMA KnowledgeStays ==
  ASSUME NEW L, NEW M, NEW n, NEW b, \A i \in 1 .. n : M[i] = L[i]
  PROVE  /\ CountsAll(b, L, n) => CountsAll(b, M, n)
         /\ NotesAll(b, L, n) => NotesAll(b, M, n)
<1>1. \A p : Written(L, p, n) = Written(M, p, n) BY WrittenAgrees
<1> QED BY <1>1 DEF CountsAll, NotesAll

LEMMA WrittenWithRow ==
  ASSUME NEW L, NEW M, NEW p, NEW n \in Nat, \A i \in 1 .. n : M[i] = L[i]
  PROVE  /\ Cardinality(Written(L, p, n)) \in Nat /\ Cardinality(Written(M, p, n + 1)) \in Nat
         /\ Cardinality(Written(M, p, n + 1)) <= Cardinality(Written(L, p, n)) + 1
         /\ M[n + 1].phase # p \/ M[n + 1].by # "provider" =>
              Cardinality(Written(M, p, n + 1)) = Cardinality(Written(L, p, n))
<1>1. Written(L, p, n) = Written(M, p, n) BY WrittenAgrees
<1>2. n + 1 \in Nat OBVIOUS
<1> QED BY <1>1, <1>2, WrittenIsCounted, WrittenGrows

\* What one more row does to the rows written in a phase.
Alike(L, M, n) == \A i \in 1 .. n : M[i] = L[i]
OneMore(L, M, p, n) ==
  /\ Cardinality(Written(L, p, n)) \in Nat /\ Cardinality(Written(M, p, n + 1)) \in Nat
  /\ Cardinality(Written(M, p, n + 1)) <= Cardinality(Written(L, p, n)) + 1
  /\ M[n + 1].phase # p => Cardinality(Written(M, p, n + 1)) = Cardinality(Written(L, p, n))

LEMMA WrittenOneMore ==
  ASSUME NEW L, NEW M, NEW p, NEW n \in Nat, Alike(L, M, n)
  PROVE  OneMore(L, M, p, n)
BY WrittenWithRow DEF Alike, OneMore

LEMMA ObservedRegisters ==
  ASSUME NEW b \in Breakers, NEW p \in GuardPhases, NEW free \in BOOLEAN, NEW o \in Observations,
         NEW c, c = Observed(b, p, free, o)
  PROVE  Registers(c, b, p, free, o)
BY ObservedCounts DEF Registers

\* A row that no counter is to know leaves the ceiling where it was.
LEMMA CeilingWithOther ==
  ASSUME GuardInv, NEW row \in LogRows, row.by = "checks", log' = Append(log, row)
  PROVE  CeilingHolds'
<1>1. /\ log \in Seq(LogRows) /\ CeilingHolds BY DEF GuardInv
<1>2. /\ Len(log) \in Nat /\ Len(log') = Len(log) + 1 /\ log'[Len(log) + 1] = row
      /\ \A i \in 1 .. Len(log) : log'[i] = log[i]
  BY <1>1, AppendedRow
<1>n. PICK n \in Nat : n = Len(log) BY <1>2
<1>l. PICK L, M : L = log /\ M = log' OBVIOUS
<1>3. ASSUME NEW p \in GuardPhases PROVE Cardinality(Written(log', p, Len(log'))) <= 3 * PhaseBudgets[p]
  <2>0. (\A i \in 1 .. n : M[i] = L[i]) /\ M[n + 1] = row BY <1>2, <1>n, <1>l
  <2>1. Cardinality(Written(M, p, n + 1)) = Cardinality(Written(L, p, n))
    BY <2>0, WrittenWithRow
  <2>2. Cardinality(Written(log, p, Len(log))) <= 3 * PhaseBudgets[p]
    BY <1>1 DEF CeilingHolds, Written
  <2> QED BY <1>2, <2>1, <2>2, <1>n, <1>l
<1> QED BY <1>3 DEF CeilingHolds, Written

\* A phase below its ceiling has room for one more row.
LEMMA CeilingWithProvider ==
  ASSUME GuardAssumptions, GuardInv, goal.at \in {"head", "repair"}, ~AtCeiling(goal.phase),
         NEW row \in LogRows, row.phase = goal.phase, log' = Append(log, row)
  PROVE  CeilingHolds'
<1>1. /\ log \in Seq(LogRows) /\ CeilingHolds /\ CountsAll(breaker, log, Len(log))
      /\ breaker \in Breakers /\ goal.phase \in GuardPhases
  BY DEF GuardInv, GuardTypeOK, CountersSound, CallLives, Settled
<1>2. /\ Len(log) \in Nat /\ Len(log') = Len(log) + 1 /\ log'[Len(log) + 1] = row
      /\ \A i \in 1 .. Len(log) : log'[i] = log[i]
  BY <1>1, AppendedRow
<1>n. PICK n \in Nat : n = Len(log) BY <1>2
<1>l. PICK L, M : L = log /\ M = log' OBVIOUS
<1>3. ASSUME NEW p \in GuardPhases PROVE Cardinality(Written(log', p, Len(log'))) <= 3 * PhaseBudgets[p]
  <2>0. (\A i \in 1 .. n : M[i] = L[i]) /\ M[n + 1].phase = goal.phase BY <1>2, <1>n, <1>l
  <2>1. /\ Cardinality(Written(L, p, n)) \in Nat /\ Cardinality(Written(M, p, n + 1)) \in Nat
        /\ Cardinality(Written(M, p, n + 1)) <= Cardinality(Written(L, p, n)) + 1
        /\ p # goal.phase => Cardinality(Written(M, p, n + 1)) = Cardinality(Written(L, p, n))
    <3>1. Alike(L, M, n) BY <2>0 DEF Alike
    <3>2. OneMore(L, M, p, n) BY <1>n, <3>1, WrittenOneMore, Zenon
    <3> QED BY <2>0, <3>2 DEF OneMore
  <2>2. Cardinality(Written(log, p, Len(log))) <= 3 * PhaseBudgets[p]
    BY <1>1 DEF CeilingHolds, Written
  <2>3. CASE p = goal.phase
    <3>1. Cardinality(Written(log, p, Len(log))) <= breaker.count[p] BY <1>1 DEF CountsAll
    <3>2. ~(breaker.count[p] >= 3 * PhaseBudgets[p]) BY <2>3 DEF AtCeiling
    <3>3. breaker.count[p] \in Nat BY <1>1 DEF Breakers
    <3>4. PhaseBudgets[p] \in Nat \ {0} BY DEF GuardAssumptions
    <3> QED BY <1>2, <1>n, <1>l, <2>1, <3>1, <3>2, <3>3, <3>4
  <2>4. CASE p # goal.phase
    BY <1>2, <1>n, <1>l, <2>1, <2>2, <2>4
  <2> QED BY <2>3, <2>4
<1> QED BY <1>3 DEF CeilingHolds, Written

\* What the latest row becomes is counted no more than before.
LEMMA CeilingWithLatest ==
  ASSUME GuardAssumptions, GuardInv, log # <<>>, NEW row \in LogRows, log' = WithLatest(row),
         ~LatestStep.unseen, row.phase = LatestStep.phase, row.by = LatestStep.by,
         row.free = LatestStep.free
  PROVE  CeilingHolds'
<1>1. log \in Seq(LogRows) /\ CeilingHolds BY DEF GuardInv
<1>2. /\ Len(log) \in Nat \ {0} /\ Len(log') = Len(log) /\ log'[Len(log)] = row
      /\ \A i \in 1 .. Len(log) - 1 : log'[i] = log[i]
  BY <1>1, ReplacedRow
<1>3. ASSUME NEW p \in GuardPhases PROVE Cardinality(Written(log', p, Len(log'))) <= 3 * PhaseBudgets[p]
  <2>1. Written(log', p, Len(log)) \subseteq Written(log, p, Len(log))
    <3>1. ASSUME NEW i \in Written(log', p, Len(log)) PROVE i \in Written(log, p, Len(log))
      <4>1. CASE i = Len(log) BY <1>2, <4>1 DEF Written, LatestStep
      <4>2. CASE i # Len(log)
        <5>1. i \in 1 .. Len(log) - 1 BY <1>2, <4>2 DEF Written
        <5> QED BY <1>2, <5>1 DEF Written
      <4> QED BY <4>1, <4>2
    <3> QED BY <3>1
  <2>2. /\ IsFiniteSet(Written(log, p, Len(log)))
        /\ Cardinality(Written(log, p, Len(log))) \in Nat
        /\ Cardinality(Written(log', p, Len(log))) \in Nat
    BY <1>2, WrittenIsCounted
  <2>3. Cardinality(Written(log', p, Len(log))) <= Cardinality(Written(log, p, Len(log)))
    BY <2>1, <2>2, FS_Subset
  <2>4. Cardinality(Written(log, p, Len(log))) <= 3 * PhaseBudgets[p]
    BY <1>1 DEF CeilingHolds, Written
  <2>5. PhaseBudgets[p] \in Nat \ {0} BY DEF GuardAssumptions
  <2> QED BY <1>2, <2>2, <2>3, <2>4, <2>5
<1> QED BY <1>3 DEF CeilingHolds, Written

-----------------------------------------------------------------------------
\* The call goes on with the row it has written: a repair, or a provider.
LEMMA GoingOnSound ==
  ASSUME GuardAssumptions, GuardInv, goal.at \in {"head", "repair"}, ~AtCeiling(goal.phase),
         NEW x \in {"repair", "executing"}, goal' = [goal EXCEPT !.at = x],
         NEW row \in LogRows, row.phase = goal.phase, log' = Append(log, row), ~row.unseen,
         x = "repair" => goal.phase = "testing" /\ row.by = "checks" /\ row.says \notin Says,
         x = "executing" => row.status = "running" /\ row.by = "provider",
         breaker' = breaker, smallTask' = smallTask, decision' = "unasked",
         RecoveriesTyped', RecoveriesSound'
  PROVE  GuardInv'
<1>1. /\ log \in Seq(LogRows) /\ breaker \in Breakers /\ goal.phase \in GuardPhases
      /\ goal \in [at : {"waiting", "head", "repair", "executing", "over"}, phase : GuardPhases,
                   ending : {"none", "loop", "stopped", "delivered"}]
      /\ goal.ending = "none"
      /\ CountsAll(breaker, log, Len(log)) /\ NotesAll(breaker, log, Len(log))
  BY DEF GuardInv, GuardTypeOK, PlaceSound, CountersSound, CallLives, Settled
<1>2. /\ Len(log) \in Nat /\ Len(log') = Len(log) + 1 /\ log'[Len(log) + 1] = row
      /\ \A i \in 1 .. Len(log) : log'[i] = log[i]
      /\ log' \in Seq(LogRows) /\ log' # <<>>
  BY <1>1, AppendedRow
<1>3. /\ goal' \in [at : {"waiting", "head", "repair", "executing", "over"}, phase : GuardPhases,
                    ending : {"none", "loop", "stopped", "delivered"}]
      /\ goal'.at = x /\ goal'.phase = goal.phase /\ goal'.ending = "none"
  BY <1>1
<1>4. GuardTypeOK'
  <2>1. \A i \in 1 .. Len(log') : log'[i] \in LogRows BY <1>2
  <2>2. smallTask' \in BOOLEAN BY DEF GuardInv, GuardTypeOK
  <2> QED BY <1>1, <1>3, <2>1, <2>2 DEF GuardTypeOK, RecoveriesTyped
<1>5. PlaceSound'
  <2>1. LatestStep' = row BY <1>2 DEF LatestStep
  <2>2. ~AtCeiling(goal.phase)' BY <1>3 DEF AtCeiling
  <2> QED BY <1>2, <1>3, <2>1, <2>2 DEF PlaceSound, AtCeiling
<1>6. CountersSound'
  <2>1. CountsAll(breaker, log', Len(log)) /\ NotesAll(breaker, log', Len(log))
    BY <1>1, <1>2, KnowledgeStays
  <2>2. CASE x = "executing"
    <3>1. Settled' = Len(log) BY <1>2, <1>3, <2>2 DEF Settled
    <3> QED BY <2>1, <3>1 DEF CountersSound
  <2>3. CASE x = "repair"
    <3>1. Settled' = Len(log) + 1 BY <1>2, <1>3, <2>3 DEF Settled
    <3>2. Exceeds(breaker, breaker)
      <4>1. \A q \in GuardPhases : breaker.count[q] <= breaker.count[q] BY <1>1 DEF Breakers
      <4>2. \A f \in GuardPhases \X Texts : breaker.repeats[f] <= breaker.repeats[f]
        BY <1>1 DEF Breakers
      <4> QED BY <1>1, <4>1, <4>2 DEF Exceeds
    <3>3. \A i \in 1 .. Len(log) + 1 : log'[i] \in LogRows BY <1>2
    <3>4. CountsAll(breaker, log', Len(log) + 1) /\ NotesAll(breaker, log', Len(log) + 1)
      BY <1>1, <1>2, <2>1, <2>3, <3>2, <3>3, KnowsNextRow
    <3> QED BY <3>1, <3>4 DEF CountersSound
  <2> QED BY <2>2, <2>3
<1>7. CeilingHolds' BY CeilingWithProvider
<1>8. RepeatsAreNoticed' BY DEF RepeatsAreNoticed
<1>9. LoopsAreReal' BY <1>3 DEF LoopsAreReal
<1> QED BY <1>2, <1>4, <1>5, <1>6, <1>7, <1>8, <1>9 DEF GuardInv

\* The rows of a validation.
ChecksRow(row) ==
  /\ row \in LogRows /\ row.phase = goal.phase /\ row.by = "checks"
  /\ row.says \notin Says /\ ~row.unseen

LEMMA RowsOfChecks ==
  ASSUME GuardAssumptions, goal.phase \in GuardPhases
  PROVE  /\ ChecksRow(Row("completed", PassText, FALSE, "checks"))
         /\ \A says \in CheckTexts : ChecksRow(Row("failed", says, FALSE, "checks"))
         /\ ChecksRow(Row("cancelled", CutText, FALSE, "checks"))
<1>1. \A says \in CheckTexts \cup {PassText, CutText} : says \in Texts /\ says \notin Says
  BY DEF Texts, OwnTexts, GuardAssumptions
<1> QED BY <1>1 DEF ChecksRow, Row, LogRows

LEMMA ValidatesSound ==
  ASSUME GuardAssumptions, GuardInv, Validates
  PROVE  GuardInv'
<1>1. /\ goal.at = "head" /\ goal.phase = "testing" /\ ~AtCeiling(goal.phase) /\ goal.phase \in GuardPhases
      /\ recoveries' = recoveries /\ smallTask' = smallTask /\ decision' = "unasked"
      /\ log \in Seq(LogRows) /\ breaker \in Breakers
      /\ CountsAll(breaker, log, Len(log)) /\ NotesAll(breaker, log, Len(log))
  BY DEF Validates, GuardInv, GuardTypeOK, CountersSound, CallLives, Settled
<1>2. "reviewing" \in GuardPhases
  BY DEF GuardAssumptions
<1>3. RecoveriesTyped' /\ RecoveriesSound' BY <1>1, SameRecoveries
<1>4. RepeatsAreNoticed' BY <1>1 DEF RepeatsAreNoticed
<1>5. ASSUME NEW row, ChecksRow(row), log' = Append(log, row), Lands(breaker)
      PROVE  GuardInv'
  <2>0. row \in LogRows /\ row.by = "checks" /\ row.says \notin Says BY <1>5 DEF ChecksRow
  <2>1. /\ Len(log) \in Nat /\ log' \in Seq(LogRows) /\ Len(log') = Len(log) + 1
        /\ log'[Len(log) + 1] = row /\ \A i \in 1 .. Len(log) : log'[i] = log[i]
    BY <1>1, <1>5, <2>0, AppendedRow
  <2>2. CountsAll(breaker, log', Len(log)) /\ NotesAll(breaker, log', Len(log))
    BY <1>1, <2>1, KnowledgeStays
  <2>3. Exceeds(breaker, breaker)
    <3>1. \A q \in GuardPhases : breaker.count[q] <= breaker.count[q] BY <1>1 DEF Breakers
    <3>2. \A f \in GuardPhases \X Texts : breaker.repeats[f] <= breaker.repeats[f]
      BY <1>1 DEF Breakers
    <3> QED BY <1>1, <3>1, <3>2 DEF Exceeds
  <2>4. \A i \in 1 .. Len(log) + 1 : log'[i] \in LogRows BY <2>1
  <2>n. PICK n \in Nat : n = Len(log) BY <2>1
  <2>k. PICK L : L = log' OBVIOUS
  <2>7. row = L[n + 1] /\ CountsAll(breaker, L, n) /\ NotesAll(breaker, L, n)
    BY <2>1, <2>2, <2>n, <2>k
  <2>8. CountsAll(breaker, L, n + 1) /\ NotesAll(breaker, L, n + 1)
    BY <1>1, <2>0, <2>3, <2>4, <2>7, <2>n, <2>k, KnowsNextRow
  <2>5. CountsAll(breaker, log', Len(log')) /\ NotesAll(breaker, log', Len(log'))
    BY <2>1, <2>8, <2>n, <2>k
  <2>6. CeilingHolds' BY <1>5, <2>0, CeilingWithOther
  <2> QED BY <1>1, <1>3, <1>4, <1>5, <2>1, <2>5, <2>6, LandingSound
<1>6. CASE log' = Append(log, Row("completed", PassText, FALSE, "checks")) /\ GoesTo("reviewing", breaker)
  <2>1. Lands(breaker) BY <1>2, <1>6 DEF Lands
  <2> QED BY <1>1, <1>5, <1>6, <2>1, RowsOfChecks
<1>7. ASSUME NEW says \in CheckTexts, log' = Append(log, Row("failed", says, FALSE, "checks")),
             (goal' = [goal EXCEPT !.at = "repair"] /\ UNCHANGED breaker) \/ Waits("testing")
      PROVE  GuardInv'
  <2>1. CASE goal' = [goal EXCEPT !.at = "repair"] /\ UNCHANGED breaker
    <3>x. PICK x \in {"repair", "executing"} : x = "repair" OBVIOUS
    <3>r. PICK row : row = Row("failed", says, FALSE, "checks") OBVIOUS
    <3>1. /\ row \in LogRows /\ row.phase = goal.phase /\ row.by = "checks" /\ row.says \notin Says
          /\ ~row.unseen
      BY <1>1, <3>r, RowsOfChecks DEF ChecksRow
    <3>2. goal' = [goal EXCEPT !.at = x] /\ breaker' = breaker /\ log' = Append(log, row)
      BY <1>7, <2>1, <3>x, <3>r
    <3> QED BY <1>1, <1>3, <3>x, <3>1, <3>2, GoingOnSound
  <2>2. CASE Waits("testing")
    <3>1. Lands(breaker) BY <1>1, <2>2 DEF Lands
    <3> QED BY <1>1, <1>5, <1>7, <3>1, RowsOfChecks
  <2> QED BY <1>7, <2>1, <2>2
<1>8. CASE log' = Append(log, Row("cancelled", CutText, FALSE, "checks")) /\ Waits("testing")
  <2>1. Lands(breaker) BY <1>1, <1>8 DEF Lands
  <2> QED BY <1>1, <1>5, <1>8, <2>1, RowsOfChecks
<1> QED BY <1>6, <1>7, <1>8 DEF Validates

LEMMA ProviderBeginsSound ==
  ASSUME GuardAssumptions, GuardInv, ProviderBegins
  PROVE  GuardInv'
<1>1. /\ goal.at \in {"head", "repair"} /\ ~AtCeiling(goal.phase) /\ goal.phase \in GuardPhases
      /\ smallTask' = smallTask /\ decision' = "unasked" /\ breaker' = breaker
      /\ goal' = [goal EXCEPT !.at = "executing"]
  BY DEF ProviderBegins, GuardInv, GuardTypeOK, PlaceSound
<1>2. PICK free \in BOOLEAN :
        /\ free => recoveries[goal.phase].pending > 0
        /\ log' = Append(log, Row("running", CutText, free, "provider"))
        /\ recoveries' = IF free THEN [recoveries EXCEPT ![goal.phase].pending = @ - 1] ELSE recoveries
  BY DEF ProviderBegins
<1>3. RecoveriesTyped' /\ RecoveriesSound'
  <2>1. CASE ~free BY <1>2, <2>1, SameRecoveries
  <2>2. CASE free
    <3>r. PICK r : r = recoveries[goal.phase] OBVIOUS
    <3>l. PICK left : left = r.pending - 1 OBVIOUS
    <3>1. /\ recoveries \in [GuardPhases -> [granted : 0 .. Helpers, pending : 0 .. Helpers]]
          /\ r \in [granted : 0 .. Helpers, pending : 0 .. Helpers] /\ r.pending <= r.granted
          /\ \A p \in GuardPhases : recoveries[p].pending <= recoveries[p].granted
      BY <1>1, <3>r DEF GuardInv, GuardTypeOK, RecoveriesSound
    <3>2. Helpers \in Nat BY DEF GuardAssumptions
    <3>3. r.pending > 0 BY <1>2, <2>2, <3>r
    <3>4. left \in 0 .. Helpers /\ left <= r.granted BY <3>1, <3>2, <3>3, <3>l
    <3>x. PICK x : x = [r EXCEPT !.pending = left] OBVIOUS
    <3>5. recoveries' = [recoveries EXCEPT ![goal.phase] = x]
      BY <1>2, <2>2, <3>r, <3>l, <3>x
    <3>6. x \in [granted : 0 .. Helpers, pending : 0 .. Helpers] /\ x.pending <= x.granted
      BY <3>1, <3>4, <3>x
    <3>7. recoveries' \in [GuardPhases -> [granted : 0 .. Helpers, pending : 0 .. Helpers]]
      BY <1>1, <3>1, <3>5, <3>6
    <3>8. \A p \in GuardPhases : recoveries'[p] = IF p = goal.phase THEN x ELSE recoveries[p]
      BY <1>1, <3>1, <3>5
    <3> QED BY <3>1, <3>6, <3>7, <3>8 DEF RecoveriesTyped, RecoveriesSound
  <2> QED BY <2>1, <2>2
<1>r. PICK row : row = Row("running", CutText, free, "provider") OBVIOUS
<1>4. /\ row \in LogRows /\ row.phase = goal.phase /\ row.by = "provider" /\ row.status = "running"
      /\ ~row.unseen
  <2>1. CutText \in Texts BY DEF Texts, OwnTexts
  <2> QED BY <1>1, <1>r, <2>1 DEF Row, LogRows
<1>x. PICK x \in {"repair", "executing"} : x = "executing" OBVIOUS
<1>5. goal' = [goal EXCEPT !.at = x] /\ log' = Append(log, row) BY <1>1, <1>2, <1>r, <1>x
<1> QED BY <1>1, <1>3, <1>4, <1>5, <1>x, GoingOnSound

\* What holds while a provider works.
LEMMA WorkFacts ==
  ASSUME GuardAssumptions, GuardInv, goal.at = "executing"
  PROVE  /\ log \in Seq(LogRows) /\ log # <<>> /\ Len(log) \in Nat \ {0}
         /\ LatestStep \in LogRows /\ LatestStep.phase = goal.phase /\ LatestStep.by = "provider"
         /\ ~LatestStep.unseen /\ LatestStep.free \in BOOLEAN
         /\ goal.phase \in GuardPhases /\ breaker \in Breakers
         /\ CountsAll(breaker, log, Len(log) - 1) /\ NotesAll(breaker, log, Len(log) - 1)
<1>1. /\ log \in Seq(LogRows) /\ log # <<>> /\ goal.phase \in GuardPhases /\ breaker \in Breakers
      /\ LatestStep.phase = goal.phase /\ LatestStep.by = "provider" /\ ~LatestStep.unseen
      /\ CountsAll(breaker, log, Len(log) - 1) /\ NotesAll(breaker, log, Len(log) - 1)
  BY DEF GuardInv, GuardTypeOK, PlaceSound, CountersSound, CallLives, Settled
<1>2. Len(log) \in Nat \ {0} BY <1>1
<1>3. LatestStep \in LogRows BY <1>1, <1>2 DEF LatestStep
<1>4. LatestStep.free \in BOOLEAN BY <1>3 DEF LogRows
<1> QED BY <1>1, <1>2, <1>3, <1>4

LEMMA FinishedIs ==
  ASSUME LatestStep \in LogRows, NEW o \in Observations
  PROVE  /\ Finished(o) \in LogRows
         /\ Finished(o).phase = LatestStep.phase /\ Finished(o).by = LatestStep.by
         /\ Finished(o).free = LatestStep.free
         /\ Finished(o).status = o.outcome /\ Finished(o).says = o.says
         /\ Finished(o).unseen <=> o.stop # "none"
<1>u. PICK unseen \in BOOLEAN : unseen <=> o.stop # "none"
  <2>1. CASE o.stop # "none" BY <2>1
  <2>2. CASE o.stop = "none" BY <2>2
  <2> QED BY <2>1, <2>2
<1>1. /\ o.outcome \in {"completed", "failed", "blocked", "changes_requested"} /\ o.says \in Texts
  BY DEF Observations, Texts
<1>2. Finished(o) = [LatestStep EXCEPT !.status = o.outcome, !.says = o.says, !.unseen = unseen]
  <2>1. (o.stop # "none") = unseen BY <1>u
  <2> QED BY <2>1 DEF Finished
<1> QED BY <1>1, <1>2, <1>u DEF LogRows

LeftRow(o, d) ==
  IF d = "no_progress" THEN [Finished(o) EXCEPT !.status = "failed", !.says = IdleText[goal.phase]] ELSE Finished(o)

\* The row a step leaves: of its provider and phase, counted unless the process was
\* stopped; what the provider said, or that it changed nothing.
LEMMA StepLeaves ==
  ASSUME GuardAssumptions, GuardInv, goal.at = "executing", NEW o \in Observations, NEW d,
         NEW row, row = LeftRow(o, d)
  PROVE  /\ row \in LogRows /\ row.phase = goal.phase /\ row.by = "provider"
         /\ row.free = LatestStep.free /\ (row.unseen <=> o.stop # "none")
         /\ row.says \in Says => row.says = o.says /\ row.status = o.outcome
         /\ d # "no_progress" => row = Finished(o) /\ row.says = o.says /\ row.status = o.outcome
<1>f. PICK f : f = Finished(o) OBVIOUS
<1>1. /\ LatestStep \in LogRows /\ LatestStep.phase = goal.phase /\ LatestStep.by = "provider"
  BY WorkFacts
<1>2. /\ f \in LogRows /\ f.phase = goal.phase /\ f.by = "provider"
      /\ f.free = LatestStep.free /\ f.status = o.outcome
      /\ f.says = o.says /\ (f.unseen <=> o.stop # "none")
  BY <1>1, <1>f, FinishedIs
<1>3. CASE d # "no_progress" BY <1>2, <1>3, <1>f DEF LeftRow
<1>4. CASE d = "no_progress"
  <2>i. PICK idle : idle = IdleText[goal.phase] OBVIOUS
  <2>0. idle \in Texts /\ idle \notin Says
    <3>1. goal.phase \in GuardPhases BY DEF GuardInv, GuardTypeOK
    <3> QED BY <2>i, <3>1 DEF Texts, OwnTexts, GuardAssumptions
  <2>1. row = [f EXCEPT !.status = "failed", !.says = idle] BY <1>4, <1>f, <2>i DEF LeftRow
  <2>2. /\ row \in LogRows /\ row.phase = f.phase /\ row.by = f.by
        /\ row.free = f.free /\ row.unseen = f.unseen /\ row.says = idle
    <3>1. idle \in Texts BY <2>0
    <3> QED BY <1>2, <2>1, <3>1 DEF LogRows
  <2>3. idle \notin Says BY <2>0
  <2> QED BY <1>2, <1>4, <2>2, <2>3
<1> QED BY <1>3, <1>4

\* The counters after observe know the row.
LEMMA ObservedKnows ==
  ASSUME GuardAssumptions, GuardInv, goal.at = "executing", NEW o \in Observations, NEW d,
         NEW row, row = LeftRow(o, d),
         log' = WithLatest(row),
         NEW b, b = Observed(breaker, goal.phase, LatestStep.free, o)
  PROVE  b \in Breakers /\ CountsAll(b, log', Len(log')) /\ NotesAll(b, log', Len(log'))
<1>1. /\ log \in Seq(LogRows) /\ log # <<>> /\ LatestStep.free \in BOOLEAN
      /\ goal.phase \in GuardPhases /\ breaker \in Breakers
      /\ CountsAll(breaker, log, Len(log) - 1) /\ NotesAll(breaker, log, Len(log) - 1)
  BY WorkFacts
<1>2. /\ row \in LogRows /\ row.phase = goal.phase
      /\ row.free = LatestStep.free /\ (row.unseen <=> o.stop # "none")
      /\ row.says \in Says => row.says = o.says /\ row.status = o.outcome
  BY StepLeaves
<1>3. /\ Len(log) \in Nat \ {0} /\ log' \in Seq(LogRows) /\ Len(log') = Len(log)
      /\ log'[Len(log)] = row /\ \A i \in 1 .. Len(log) - 1 : log'[i] = log[i]
  BY <1>1, <1>2, ReplacedRow
<1>n. PICK n \in Nat : n + 1 = Len(log) /\ n = Len(log) - 1
  <2>1. Len(log) - 1 \in Nat /\ (Len(log) - 1) + 1 = Len(log) BY <1>3
  <2> QED BY <2>1
<1>l. PICK L : L = log' OBVIOUS
<1>p. PICK p : p = goal.phase OBVIOUS
<1>q. PICK free \in BOOLEAN : free = LatestStep.free BY <1>1
<1>o. b = Observed(breaker, p, free, o) BY <1>p, <1>q
<1>y. p \in GuardPhases BY <1>1, <1>p
<1>z. breaker \in Breakers BY <1>1
<1>w. /\ Exceeds(b, breaker)
      /\ o.stop = "none" /\ ~free => b.count[p] = breaker.count[p] + 1
      /\ o.stop = "none" /\ ~free /\ o.outcome = "failed" =>
           b.repeats[<<p, o.says>>] = breaker.repeats[<<p, o.says>>] + 1
  <2>1. Registers(b, breaker, p, free, o)
    BY <1>o, <1>y, <1>z, <1>q, ObservedRegisters, Zenon
  <2> QED BY <2>1, Zenon DEF Registers
<1>4. /\ Exceeds(b, breaker) /\ b \in Breakers
      /\ o.stop = "none" /\ ~LatestStep.free => b.count[goal.phase] = breaker.count[goal.phase] + 1
      /\ o.stop = "none" /\ ~LatestStep.free /\ o.outcome = "failed" =>
           b.repeats[<<goal.phase, o.says>>] = breaker.repeats[<<goal.phase, o.says>>] + 1
  BY <1>p, <1>q, <1>w DEF Exceeds
<1>5. CountsAll(breaker, L, n) /\ NotesAll(breaker, L, n)
  BY <1>1, <1>3, <1>n, <1>l, KnowledgeStays
<1>6. (\A i \in 1 .. n + 1 : L[i] \in LogRows) /\ row = L[n + 1]
  BY <1>3, <1>n, <1>l
<1>7. row.by = "provider" /\ ~row.free /\ ~row.unseen => b.count[row.phase] = breaker.count[row.phase] + 1
  BY <1>2, <1>4
<1>8. ASSUME row.status = "failed", ~row.free, ~row.unseen, row.says \in Says
      PROVE  b.repeats[<<row.phase, row.says>>] >= 1
  <2>x. PICK x : x = <<goal.phase, o.says>> OBVIOUS
  <2>1. b.repeats[x] = breaker.repeats[x] + 1 BY <1>2, <1>4, <1>8, <2>x
  <2>2. x \in GuardPhases \X Texts BY <1>1, <2>x DEF Observations, Texts
  <2>3. breaker.repeats[x] \in Nat BY <1>1, <2>2 DEF Breakers
  <2>4. <<row.phase, row.says>> = x BY <1>2, <1>8, <2>x
  <2> QED BY <2>1, <2>3, <2>4
<1>9. CountsAll(b, L, n + 1) /\ NotesAll(b, L, n + 1)
  BY <1>1, <1>4, <1>5, <1>6, <1>7, <1>8, KnowsNextRow
<1> QED BY <1>3, <1>4, <1>9, <1>n, <1>l

\* A failure that was there before makes observe decide.
LEMMA RepeatDecides ==
  ASSUME GuardAssumptions, GuardInv, goal.at = "executing", NEW o \in Observations,
         NEW b, b = Observed(breaker, goal.phase, LatestStep.free, o),
         NEW d, d = DecisionOf(b, goal.phase, LatestStep.free, o), d = "none",
         NEW row, row = Finished(o), log' = WithLatest(row),
         row.status = "failed", ~row.free,
         NEW i \in 1 .. Len(log) - 1, log[i].phase = row.phase, log[i].says = row.says,
         log[i].status = "failed", ~log[i].free, ~log[i].unseen
  PROVE  FALSE
<1>1. /\ LatestStep \in LogRows /\ LatestStep.phase = goal.phase /\ breaker \in Breakers
      /\ goal.phase \in GuardPhases /\ LatestStep.free \in BOOLEAN
      /\ NotesAll(breaker, log, Len(log) - 1)
  BY WorkFacts
<1>2. /\ row.phase = goal.phase /\ row.free = LatestStep.free /\ row.status = o.outcome
      /\ row.says = o.says
  BY <1>1, FinishedIs
<1>3. o.stop = "none" /\ ~LatestStep.free /\ o.outcome = "failed"
  BY <1>2 DEF DecisionOf
<1>x. PICK x : x = <<goal.phase, o.says>> OBVIOUS
<1>4. x \in GuardPhases \X Texts /\ o.says \in Says BY <1>1, <1>x DEF Observations, Texts
<1>5. b.repeats[x] = breaker.repeats[x] + 1
  BY <1>1, <1>3, <1>x, ObservedCounts
<1>6. breaker.repeats[x] >= 1
  BY <1>1, <1>2, <1>4, <1>x DEF NotesAll
<1>7. breaker.repeats[x] \in Nat BY <1>1, <1>4 DEF Breakers
<1>8. FailureDecision(b, goal.phase, o) = "none" BY <1>3 DEF DecisionOf
<1>9. b.repeats[x] >= 2 BY <1>5, <1>6, <1>7
<1> QED BY <1>8, <1>9, <1>x DEF FailureDecision

LEMMA RecoversLands ==
  ASSUME GuardAssumptions, GuardInv, NEW b, NEW d, NEW o, Recovers(b, d, o)
  PROVE  Lands(b) /\ RecoveriesTyped' /\ RecoveriesSound'
<1>1. goal.phase \in GuardPhases BY DEF GuardInv, GuardTypeOK
<1>2. Lands(b) BY <1>1 DEF Recovers, Lands
<1>r. PICK r : r = recoveries[goal.phase] OBVIOUS
<1>x. PICK x : x = [granted |-> r.granted + 1, pending |-> r.pending + 1] OBVIOUS
<1>3. /\ recoveries \in [GuardPhases -> [granted : 0 .. Helpers, pending : 0 .. Helpers]]
      /\ r \in [granted : 0 .. Helpers, pending : 0 .. Helpers] /\ r.pending <= r.granted
      /\ \A p \in GuardPhases : recoveries[p].pending <= recoveries[p].granted
  BY <1>1, <1>r DEF GuardInv, GuardTypeOK, RecoveriesSound
<1>4. Helpers \in Nat /\ r.granted < Helpers BY <1>r DEF GuardAssumptions, Recovers
<1>5. x \in [granted : 0 .. Helpers, pending : 0 .. Helpers] /\ x.pending <= x.granted
  BY <1>3, <1>4, <1>x
<1>6. recoveries' = [recoveries EXCEPT ![goal.phase] = x]
  BY <1>1, <1>3, <1>r, <1>x DEF Recovers
<1>7. recoveries' \in [GuardPhases -> [granted : 0 .. Helpers, pending : 0 .. Helpers]]
  BY <1>1, <1>3, <1>5, <1>6
<1>8. \A p \in GuardPhases : recoveries'[p] = IF p = goal.phase THEN x ELSE recoveries[p]
  BY <1>1, <1>3, <1>6
<1> QED BY <1>2, <1>3, <1>5, <1>7, <1>8 DEF RecoveriesTyped, RecoveriesSound

LEMMA ReactsLands ==
  ASSUME GuardAssumptions, GuardInv, NEW b, NEW d, NEW o, NEW loops, loops => LoopShown', Reacts(b, d, o, loops)
  PROVE  Lands(b)
<1>1. /\ goal.phase \in GuardPhases /\ "testing" \in GuardPhases /\ "implementing" \in GuardPhases
  BY DEF GuardInv, GuardTypeOK, GuardAssumptions
<1>2. GoesOn(b) => Lands(b) BY <1>1 DEF GoesOn, Lands
<1>3. CircuitBreak(d, loops) => Lands(b) BY BreakLands
<1>4. Ends("stopped") \/ Waits(goal.phase) => Lands(b) BY <1>1 DEF Lands
<1>5. Delivers \/ GoesTo("testing", b) \/ GoesTo("implementing", b) => Lands(b)
  BY <1>1, DeliveryLands DEF Lands
<1> QED BY <1>2, <1>3, <1>4, <1>5 DEF Reacts

LEMMA StepEndsSound ==
  ASSUME GuardAssumptions, GuardInv, NEW o \in Observations, StepEnds(o)
  PROVE  GuardInv'
<1>b. PICK b : b = Observed(breaker, goal.phase, LatestStep.free, o) OBVIOUS
<1>d. PICK d : d = DecisionOf(b, goal.phase, LatestStep.free, o) OBVIOUS
<1>r. PICK row : row = LeftRow(o, d) OBVIOUS
<1>1. /\ goal.at = "executing" /\ smallTask' = smallTask
      /\ log' = WithLatest(row)
      /\ decision' = IF d = "none" THEN "none" ELSE "taken"
      /\ Recovers(b, d, o) \/ (Reacts(b, d, o, LoopSeen') /\ recoveries' = recoveries)
  BY <1>b, <1>d, <1>r DEF StepEnds, LeftRow
<1>2. /\ log \in Seq(LogRows) /\ log # <<>> /\ Len(log) \in Nat \ {0} /\ ~LatestStep.unseen
      /\ LatestStep.phase = goal.phase /\ LatestStep.by = "provider"
  BY <1>1, WorkFacts
<1>3. /\ row \in LogRows /\ row.phase = goal.phase /\ row.by = "provider"
      /\ row.free = LatestStep.free /\ (d # "no_progress" => row = Finished(o))
  BY <1>1, <1>r, StepLeaves
<1>4. /\ log' \in Seq(LogRows) /\ Len(log') = Len(log)
      /\ log'[Len(log)] = row /\ \A i \in 1 .. Len(log) - 1 : log'[i] = log[i]
  BY <1>1, <1>2, <1>3, ReplacedRow
<1>5. b \in Breakers /\ CountsAll(b, log', Len(log')) /\ NotesAll(b, log', Len(log'))
  BY <1>1, <1>b, <1>r, ObservedKnows
<1>6. CeilingHolds' BY <1>1, <1>2, <1>3, CeilingWithLatest
<1>7. RepeatsAreNoticed'
  <2>1. LatestStep' = row BY <1>4 DEF LatestStep
  <2>2. ASSUME decision' = "none", row.status = "failed", ~row.free, NEW i \in 1 .. Len(log') - 1,
               log'[i].phase = row.phase, log'[i].says = row.says, log'[i].status = "failed",
               ~log'[i].free, ~log'[i].unseen
        PROVE  FALSE
    <3>1. d = "none" /\ row = Finished(o) BY <1>1, <1>3, <2>2
    <3>2. i \in 1 .. Len(log) - 1 /\ log'[i] = log[i] BY <1>4, <2>2
    <3>3. /\ log[i].phase = row.phase /\ log[i].says = row.says /\ log[i].status = "failed"
          /\ ~log[i].free /\ ~log[i].unseen
      BY <2>2, <3>2
    <3> QED BY <1>1, <1>b, <1>d, <2>2, <3>1, <3>2, <3>3, RepeatDecides
  <2> QED BY <2>1, <2>2 DEF RepeatsAreNoticed
<1>8. LoopSeen' => LoopShown' BY <1>4, SeenLoopShown
<1>9. Lands(b) /\ RecoveriesTyped' /\ RecoveriesSound'
  <2>1. CASE Recovers(b, d, o) BY <2>1, RecoversLands
  <2>2. CASE Reacts(b, d, o, LoopSeen') /\ recoveries' = recoveries
    BY <1>8, <2>2, ReactsLands, SameRecoveries
  <2> QED BY <1>1, <2>1, <2>2
<1>10. decision' \in {"unasked", "none", "taken"} BY <1>1
<1> QED BY <1>1, <1>4, <1>5, <1>6, <1>7, <1>9, <1>10, LandingSound

LEMMA GuardCrashSound ==
  ASSUME GuardAssumptions, GuardInv, GuardCrash
  PROVE  GuardInv'
<1>1. /\ Waits(goal.phase) /\ decision' = "unasked" /\ smallTask' = smallTask
      /\ recoveries' = recoveries /\ goal.phase \in GuardPhases /\ log \in Seq(LogRows)
  BY DEF GuardCrash, GuardInv, GuardTypeOK
<1>2. Lands(breaker) /\ goal'.at # "head" BY <1>1 DEF Lands, Waits
<1>3. RepeatsAreNoticed' BY <1>1 DEF RepeatsAreNoticed
<1>4. RecoveriesTyped' /\ RecoveriesSound' BY <1>1, SameRecoveries
<1>5. log' \in Seq(LogRows) /\ CeilingHolds'
  <2>1. CASE log' = log BY <1>1, <2>1 DEF CeilingHolds, GuardInv
  <2>2. ASSUME goal.at = "executing", NEW row \in LogRows, log' = WithLatest(row),
               row.phase = LatestStep.phase, row.by = LatestStep.by, row.free = LatestStep.free
        PROVE  log' \in Seq(LogRows) /\ CeilingHolds'
    BY <1>1, <2>2, WorkFacts, ReplacedRow, CeilingWithLatest
  <2>3. CASE /\ goal.at = "executing"
             /\ log' = WithLatest([LatestStep EXCEPT !.status = "cancelled", !.says = CutText])
    <3>r. PICK row : row = [LatestStep EXCEPT !.status = "cancelled", !.says = CutText] OBVIOUS
    <3>1. LatestStep \in LogRows /\ CutText \in Texts BY <2>3, WorkFacts DEF Texts, OwnTexts
    <3>2. /\ row \in LogRows /\ row.phase = LatestStep.phase /\ row.by = LatestStep.by
          /\ row.free = LatestStep.free
      BY <3>1, <3>r DEF LogRows
    <3> QED BY <2>2, <2>3, <3>2, <3>r
  <2>4. CASE goal.at = "executing" /\ \E o \in Observations : log' = WithLatest(Finished(o))
    <3>1. PICK o \in Observations : log' = WithLatest(Finished(o)) BY <2>4
    <3>2. LatestStep \in LogRows BY <2>4, WorkFacts
    <3> QED BY <2>2, <2>4, <3>1, <3>2, FinishedIs
  <2> QED BY <2>1, <2>3, <2>4 DEF GuardCrash
<1>6. decision' \in {"unasked", "none", "taken"} BY <1>1
<1> QED BY <1>1, <1>2, <1>3, <1>4, <1>5, <1>6, LandingSound

-----------------------------------------------------------------------------
LEMMA GuardStartsSound == ASSUME GuardAssumptions PROVE GuardInit => GuardInv
<1> SUFFICES ASSUME GuardInit PROVE GuardInv
  OBVIOUS
<1>1. /\ smallTask \in BOOLEAN /\ log = <<>> /\ breaker = Fresh /\ decision = "unasked"
      /\ goal = [at |-> "waiting", phase |-> "implementing", ending |-> "none"]
      /\ recoveries = [p \in GuardPhases |-> [granted |-> 0, pending |-> 0]]
  BY DEF GuardInit, GuardStarts
<1>2. log \in Seq(LogRows) /\ Len(log) = 0 BY <1>1
<1>3. Helpers \in Nat /\ "implementing" \in GuardPhases BY DEF GuardAssumptions
<1>4. GuardTypeOK
  <2>1. recoveries \in [GuardPhases -> [granted : 0 .. Helpers, pending : 0 .. Helpers]]
    BY <1>1, <1>3
  <2> QED BY <1>1, <1>2, <1>3, <2>1, FreshCounts DEF GuardTypeOK
<1>5. PlaceSound /\ RecoveriesSound BY <1>1 DEF PlaceSound, RecoveriesSound
<1>6. CountersSound BY <1>1 DEF CountersSound, CallLives
<1>7. CeilingHolds
  <2>1. ASSUME NEW p \in GuardPhases PROVE Cardinality(Written(log, p, Len(log))) <= 3 * PhaseBudgets[p]
    <3>1. Written(log, p, Len(log)) = {} BY <1>2 DEF Written
    <3>2. PhaseBudgets[p] \in Nat \ {0} BY DEF GuardAssumptions
    <3>3. Cardinality(Written(log, p, Len(log))) = 0 BY <3>1, FS_EmptySet
    <3> QED BY <3>2, <3>3
  <2> QED BY <2>1 DEF CeilingHolds, Written
<1>8. RepeatsAreNoticed /\ LoopsAreReal BY <1>1 DEF RepeatsAreNoticed, LoopsAreReal
<1> QED BY <1>2, <1>4, <1>5, <1>6, <1>7, <1>8 DEF GuardInv

LEMMA GuardStepsSound == ASSUME GuardAssumptions PROVE GuardInv /\ [GuardNext]_guardVars => GuardInv'
<1> SUFFICES ASSUME GuardInv, [GuardNext]_guardVars PROVE GuardInv'
  OBVIOUS
<1>1. CASE GuardNext
  BY <1>1, CallBeginsSound, BudgetEndsSound, SkipsPhaseSound, ValidatesSound, ProviderBeginsSound,
     NobodySound, GuardCrashSound, StepEndsSound DEF GuardNext
<1>2. CASE UNCHANGED guardVars
  <2>1. /\ smallTask' = smallTask /\ log' = log /\ breaker' = breaker /\ decision' = decision
        /\ goal' = goal /\ recoveries' = recoveries
    BY <1>2 DEF guardVars
  <2>2. GuardTypeOK' /\ PlaceSound' /\ RecoveriesSound'
    BY <2>1 DEF GuardInv, GuardTypeOK, PlaceSound, RecoveriesSound, AtCeiling, LatestStep
  <2>3. CountersSound' BY <2>1 DEF GuardInv, CountersSound, CallLives, Settled
  <2>4. CeilingHolds' /\ RepeatsAreNoticed' /\ LoopsAreReal'
    BY <2>1 DEF GuardInv, CeilingHolds, RepeatsAreNoticed, LoopsAreReal, LatestStep
  <2> QED BY <2>1, <2>2, <2>3, <2>4 DEF GuardInv
<1> QED BY <1>1, <1>2

LEMMA GuardInvariant == GuardSpec => []GuardInv
BY GuardAssumptions, GuardStartsSound, GuardStepsSound, PTL DEF GuardSpec

\* The rows, the counters and the place of the loop stay of their types through every
\* observation, recovery, retry and restart (GoalCircuitBreaker, runTaskGoal).
THEOREM GuardTypeCorrect == GuardSpec => []GuardTypeOK
<1>1. GuardInv => GuardTypeOK BY DEF GuardInv
<1> QED BY <1>1, GuardInvariant, PTL

\* For every length of history and all texts, and however often a Goal is retried or
\* restarted: a phase gets no more steps of providers than its safety ceiling, the
\* same failure never passes twice without a decision, and what is blocked as a loop
\* said the same twice with nothing else completed in between (fromSteps, observe,
\* checkPhaseBudget, detectGoalLoop).
THEOREM LoopsAreCutHolds == GuardSpec => []LoopsAreCut
<1>1. GuardInv => LoopsAreCut BY DEF GuardInv, LoopsAreCut
<1> QED BY <1>1, GuardInvariant, PTL
=============================================================================
