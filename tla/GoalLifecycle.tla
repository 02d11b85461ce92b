--------------------------- MODULE GoalLifecycle ---------------------------
(***************************************************************************)
(* What the coordinator promises about the Goals of a Task, whoever        *)
(* starts, resumes, retries, cancels or recovers them: one Goal at a time  *)
(* works in the worktree; what was cancelled or decided about never works  *)
(* again; a Goal is delivered by its own work, and twice only if the       *)
(* process is lost between a delivery and its record.  GoalCoordinator     *)
(* implements it.                                                          *)
(***************************************************************************)
EXTENDS Naturals

CONSTANTS Tasks, Runs, TaskOf

VARIABLES
  workers,     \* of each Task: the Goals that work in its worktree
  state,       \* of each Goal: "none", "open" or how it ended
  delivered,   \* Goals whose delivery is recorded
  published,   \* deliveries made for each Goal
  decided,     \* Goals a human decided about for good
  losses       \* times all work was lost

lifecycle == <<workers, state, delivered, published, decided, losses>>

Endings == {"completed", "blocked", "failed", "cancelled"}
Over(r) == state[r] = "cancelled" \/ r \in decided

Init ==
  /\ workers = [t \in Tasks |-> {}]
  /\ state = [r \in Runs |-> "none"]
  /\ delivered = {} /\ decided = {} /\ losses = 0
  /\ published = [r \in Runs |-> 0]

\* A Goal that is not over works alone in its worktree, begins to, or stops; it is
\* delivered when it completes, unless it was.
Works(r) ==
  /\ workers[TaskOf[r]] \subseteq {r} /\ ~Over(r)
  /\ \/ /\ state' = [state EXCEPT ![r] = "open"]
        /\ workers' = [workers EXCEPT ![TaskOf[r]] = {r}]
        /\ UNCHANGED <<delivered, published>>
     \/ /\ \E s \in Endings \cup {"open"} : state' = [state EXCEPT ![r] = s]
        /\ workers' = [workers EXCEPT ![TaskOf[r]] = {}]
        /\ \/ UNCHANGED <<delivered, published>>
           \/ /\ state'[r] = "completed" /\ r \notin delivered
              /\ delivered' = delivered \cup {r}
              /\ published' = [published EXCEPT ![r] = @ + 1]
  /\ UNCHANGED <<decided, losses>>

\* A Goal that is open although nobody works for its Task is cancelled by the user,
\* or a new process finds that it cannot go on.
Closes(r) ==
  /\ workers[TaskOf[r]] = {} /\ state[r] = "open"
  /\ \E s \in {"blocked", "cancelled"} : state' = [state EXCEPT ![r] = s]
  /\ UNCHANGED <<workers, delivered, published, decided, losses>>

\* While nobody works, a new process takes up again what an old one blocked.
TakesUp ==
  /\ \A t \in Tasks : workers[t] = {}
  /\ \E blocked \in SUBSET {r \in Runs : state[r] = "blocked"} :
       state' = [r \in Runs |-> IF r \in blocked THEN "open" ELSE state[r]]
  /\ UNCHANGED <<workers, delivered, published, decided, losses>>

Decides(r) ==
  /\ r \in delivered /\ r \notin decided /\ state[r] = "completed"
  /\ decided' = decided \cup {r}
  /\ UNCHANGED <<workers, state, delivered, published, losses>>

\* The process is lost, and with it all work; one Goal may be lost on its way from
\* a delivery to its record.
Lost ==
  /\ workers' = [t \in Tasks |-> {}] /\ losses' = losses + 1
  /\ \/ UNCHANGED <<state, delivered, published>>
     \/ \E r \in Runs :
          /\ workers[TaskOf[r]] \subseteq {r} /\ ~Over(r)
          /\ state' = [state EXCEPT ![r] = "open"]
          /\ \/ UNCHANGED <<delivered, published>>
             \/ /\ r \notin delivered /\ delivered' \in {delivered, delivered \cup {r}}
                /\ published' = [published EXCEPT ![r] = @ + 1]
  /\ UNCHANGED decided

Next == Lost \/ TakesUp \/ \E r \in Runs : Works(r) \/ Closes(r) \/ Decides(r)

Spec == Init /\ [][Next]_lifecycle
=============================================================================
