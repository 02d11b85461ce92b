-------------------------- MODULE OperationalChat --------------------------
(***************************************************************************)
(* src/chat of the dashboard: a message starts a turn (`ask`), in which    *)
(* the core gathers evidence, runs or queues the command the message names *)
(* and the recovery it asks for, and then lets one provider after another  *)
(* think, call tools and answer (`runChatAgentLoop`).  A button requests a *)
(* governed action (`executeAction`), and so do the tools of a provider.   *)
(*                                                                         *)
(* Turns and actions interleave at every await: the evidence, a command,   *)
(* the lease, the provider, the sizing of a new Task.  One conversation,   *)
(* one project and one brief of a Task (one action id) are modelled; what  *)
(* a message means, and whether an action still applies, is any choice.     *)
(***************************************************************************)
EXTENDS Naturals

CONSTANTS
  Asks,           \* messages sent, each with a turn of its own
  Clicks,         \* governed actions requested by a button
  Talkers,        \* providers with the capability conversation
  NoTalker,
  MaxIterations,  \* the ChatAgentBudget
  MaxToolCalls,
  Sent,           \* what each message may be: its access mode, meaning and provider
  MaxChatEvents   \* bound on what people and the world do beside that

VARIABLES
  turn,      \* the turn of each message
  act,       \* executeAction in flight for a message or a click
  pending,   \* pendingCommands: the command of each message
  executed,  \* how often that command was run (history)
  talker,    \* who holds the lease of each provider
  tasks,     \* Tasks created of the brief
  receipt,   \* the transcript holds the receipt of a creation
  conversation,  \* open, deleted, or its program is shutting down
  events     \* how often people or the world interfered

chatVars == <<turn, act, pending, executed, talker, tasks, receipt, conversation,
              events>>

AccessModes == {"read_only", "standard", "approval", "full"}
Messages == {"talk", "command", "recover", "start"}
Governed == {"create_task", "other"}

ASSUME ChatBounds ==
  /\ Asks \cap Clicks = {}
  /\ Sent \in [Asks -> SUBSET [mode : AccessModes, message : Messages, selected : Talkers \cup {NoTalker}]]
  /\ MaxIterations \in Nat /\ MaxToolCalls \in Nat /\ MaxChatEvents \in Nat

Unsent == [at |-> "unsent", mode |-> "standard", message |-> "talk", selected |-> NoTalker,
           aborted |-> FALSE, provider |-> NoTalker, excluded |-> {}, iterations |-> 0,
           toolCalls |-> 0, committed |-> FALSE, told |-> FALSE, by |-> NoTalker]
NoAct == [at |-> "none", does |-> "other", ok |-> FALSE]
DoneAct == [NoAct EXCEPT !.at = "ended"]
Checking(action) == [at |-> "checking", does |-> action, ok |-> FALSE]

-----------------------------------------------------------------------------
\* The turn as a value: what follows a step.

Ended(t) == [Unsent EXCEPT !.at = "ended", !.mode = t.mode]

\* synthesizeWithAgentLoop: the selected provider is acquired without a look
\* at the abort signal, the others after one.
Converses(t) ==
  IF t.aborted /\ t.selected = NoTalker THEN Ended(t)
  ELSE [t EXCEPT !.at = "acquiring", !.message = "talk"]

\* The next iteration of runChatAgentLoop: budget and signal, then the provider.
IteratesOnceMore(t) ==
  IF t.aborted \/ t.iterations > MaxIterations THEN Ended(t)
  ELSE [t EXCEPT !.at = "thinking", !.iterations = @ + 1]
Iterates(t) ==
  IF t.aborted \/ t.iterations >= MaxIterations THEN Ended(t)
  ELSE [t EXCEPT !.at = "thinking", !.iterations = @ + 1]

\* A tool has answered; `committed` is the mutation it reports.
ToolReturned(t, committed) ==
  Iterates([t EXCEPT !.committed = @ \/ committed, !.by = IF committed THEN t.provider ELSE @])

\* The provider failed: nobody repeats what it did, nobody replaces the
\* provider the user selected, and otherwise the next one is asked.
ProviderFailed(t) ==
  IF t.committed \/ t.selected # NoTalker THEN Ended(t)
  ELSE Converses([t EXCEPT !.provider = NoTalker, !.excluded = @ \cup {t.provider},
                           !.iterations = 0, !.toolCalls = 0])

\* What executeAction answers its caller.
Answered(t, ok) ==
  CASE t.at = "acting" -> IF ok THEN Ended(t) ELSE Converses(t)
    [] t.at = "tool"   -> ToolReturned(t, ok)

\* The turn moves on to t, and the lease goes when its provider does.
TurnBecomes(a, t) ==
  /\ turn' = [turn EXCEPT ![a] = t]
  /\ talker' = [p \in Talkers |->
       IF p = turn[a].provider /\ t.provider # p THEN NoTalker ELSE talker[p]]

\* People and the world beside the turns.
Interferes == events < MaxChatEvents /\ events' = events + 1

-----------------------------------------------------------------------------
\* ask, up to the providers

AskSent(a) ==
  /\ conversation = "open" /\ turn[a].at = "unsent"
  /\ \E m \in Sent[a] :
       turn' = [turn EXCEPT ![a] = [Unsent EXCEPT !.at = "gathering", !.mode = m.mode,
                                    !.message = m.message, !.selected = m.selected]]
  /\ UNCHANGED <<act, pending, executed, talker, tasks, receipt, conversation, events>>

\* The evidence has come: the command is queued, run or refused, and in full
\* access the core itself recovers a Goal, or installs and starts the project.
\* Cancelling the turn reaches none of these.
Gathered(a) ==
  LET t == turn[a] IN
  /\ t.at = "gathering"
  /\ \/ /\ t.message = "command" /\ t.mode = "approval"
        /\ pending' = [pending EXCEPT ![a] = "waiting"]
        /\ TurnBecomes(a, Converses(t))
        /\ UNCHANGED <<act, executed>>
     \/ /\ t.message = "command" /\ t.mode \in {"standard", "full"}
        /\ executed' = [executed EXCEPT ![a] = @ + 1]
        /\ TurnBecomes(a, [t EXCEPT !.at = "commanding"])
        /\ UNCHANGED <<act, pending>>
     \/ /\ t.message = "recover" /\ t.mode = "full"
        /\ act' = [act EXCEPT ![a] = Checking("other")]
        /\ TurnBecomes(a, [t EXCEPT !.at = "acting"])
        /\ UNCHANGED <<pending, executed>>
     \/ /\ t.message = "start" /\ t.mode = "full"
        /\ TurnBecomes(a, [t EXCEPT !.at = "commanding"])
        /\ UNCHANGED <<act, pending, executed>>
     \/ /\ TurnBecomes(a, Converses(t))   \* refused, not applicable, or plain talk
        /\ UNCHANGED <<act, pending, executed>>
  /\ UNCHANGED <<tasks, receipt, conversation, events>>

\* The command, or the start of the project, ends.
Commanded(a) ==
  /\ turn[a].at = "commanding"
  /\ TurnBecomes(a, Converses(turn[a]))
  /\ UNCHANGED <<act, pending, executed, tasks, receipt, conversation, events>>

CancelChat(a) ==
  /\ Interferes
  /\ turn[a].at \notin {"unsent", "ended"} /\ ~turn[a].aborted
  /\ turn' = [turn EXCEPT ![a].aborted = TRUE]
  /\ UNCHANGED <<act, pending, executed, talker, tasks, receipt, conversation>>

-----------------------------------------------------------------------------
\* synthesizeWithAgentLoop and runChatAgentLoop

Takes(a, p) ==
  /\ talker' = [talker EXCEPT ![p] = a]
  /\ turn' = [turn EXCEPT ![a] = Iterates([turn[a] EXCEPT !.provider = p])]

\* Any provider that is left, if it is free and ready.
Acquired(a) ==
  LET t == turn[a] IN
  /\ t.at = "acquiring" /\ t.selected = NoTalker
  /\ \/ \E p \in Talkers \ t.excluded :
          talker[p] = NoTalker /\ ~t.aborted /\ Takes(a, p)
     \/ TurnBecomes(a, Ended(t))    \* nobody, or the turn was cancelled meanwhile
  /\ UNCHANGED <<act, pending, executed, tasks, receipt, conversation, events>>

\* The provider the user selected.  The evidence is older than the lease, and
\* what it refuses, as a cancellation, leaves the lease with the ended turn.
SelectedAcquired(a) ==
  LET t == turn[a]  p == t.selected IN
  /\ t.at = "acquiring" /\ p # NoTalker
  /\ \/ talker[p] = NoTalker /\ ~t.aborted /\ Takes(a, p)
     \/ talker[p] = NoTalker /\ talker' = [talker EXCEPT ![p] = a]
                             /\ turn' = [turn EXCEPT ![a] = Ended(t)]
     \/ TurnBecomes(a, Ended(t))
  /\ UNCHANGED <<act, pending, executed, tasks, receipt, conversation, events>>

\* The provider answers, in vain if the turn was cancelled: a final answer,
\* nothing that parses, or a failure.
Thought(a) ==
  LET t == turn[a] IN
  /\ t.at = "thinking"
  /\ \/ TurnBecomes(a, Ended(t))
     \/ TurnBecomes(a, Iterates(t))
     \/ TurnBecomes(a, ProviderFailed(t))
  /\ UNCHANGED <<act, pending, executed, tasks, receipt, conversation, events>>

\* executeChatAgentTool.  Looking at the project forgets that a Task was
\* created in this turn.  Outside full access a governed action only waits
\* for a click, and a command needs standard or full access.
ToolCalled(a) ==
  LET t == [turn[a] EXCEPT !.toolCalls = @ + 1] IN
  /\ turn[a].at = "thinking" /\ ~t.aborted
  /\ IF turn[a].toolCalls >= MaxToolCalls
     THEN TurnBecomes(a, Ended(t)) /\ UNCHANGED act
     ELSE \/ TurnBecomes(a, [t EXCEPT !.at = "looking"]) /\ UNCHANGED act
          \/ /\ t.mode \in {"standard", "full"}
             /\ TurnBecomes(a, [t EXCEPT !.at = "running"]) /\ UNCHANGED act
          \/ \E action \in Governed :
               /\ t.mode = "full" /\ (action = "create_task" => ~t.told)
               /\ TurnBecomes(a, [t EXCEPT !.at = "tool"])
               /\ act' = [act EXCEPT ![a] = Checking(action)]
          \/ TurnBecomes(a, ToolReturned(t, FALSE)) /\ UNCHANGED act   \* refused, or only proposed
  /\ UNCHANGED <<pending, executed, tasks, receipt, conversation, events>>

\* A look or a command of a tool ends.  A failed command of a Goal's worktree
\* counts as a mutation too.
ToolEnds(a) ==
  /\ \/ turn[a].at = "looking" /\ TurnBecomes(a, ToolReturned([turn[a] EXCEPT !.told = FALSE], FALSE))
     \/ turn[a].at = "running" /\ \E committed \in BOOLEAN : TurnBecomes(a, ToolReturned(turn[a], committed))
  /\ UNCHANGED <<act, pending, executed, tasks, receipt, conversation, events>>

-----------------------------------------------------------------------------
\* executeAction

Requested(c, action) ==
  /\ conversation = "open" /\ act[c].at = "none"
  /\ act' = [act EXCEPT ![c] = Checking(action)]
  /\ UNCHANGED <<turn, pending, executed, talker, tasks, receipt, conversation, events>>

ApprovedLate(c, a) ==
  /\ conversation = "open" /\ act[c].at = "none" /\ pending[a] = "waiting"
  /\ act' = [act EXCEPT ![c] = [at |-> "approved", does |-> a, ok |-> FALSE]]
  /\ UNCHANGED <<turn, pending, executed, talker, tasks, receipt, conversation, events>>
\* The approval of a queued command, within its two minutes: it leaves the
\* queue before the first await.
Approved(c, a) ==
  /\ conversation = "open" /\ act[c].at = "none" /\ pending[a] = "waiting"
  /\ pending' = [pending EXCEPT ![a] = "approved"]
  /\ act' = [act EXCEPT ![c] = [at |-> "approved", does |-> a, ok |-> FALSE]]
  /\ UNCHANGED <<turn, executed, talker, tasks, receipt, conversation, events>>

ApprovedRuns(c) ==
  /\ act[c].at = "approved"
  /\ executed' = [executed EXCEPT ![act[c].does] = @ + 1]
  /\ act' = [act EXCEPT ![c] = DoneAct]
  /\ UNCHANGED <<turn, pending, talker, tasks, receipt, conversation, events>>

PendingExpires(a) ==
  /\ Interferes
  /\ pending[a] = "waiting"
  /\ pending' = [pending EXCEPT ![a] = "expired"]
  /\ UNCHANGED <<turn, act, executed, talker, tasks, receipt, conversation>>

ActBecomes(x, at, ok) == act' = [act EXCEPT ![x].at = at, ![x].ok = ok]

\* The answer reaches the caller, and the evidence of a turn says whether the
\* Task was created.
Replies(x, ok) ==
  IF x \in Asks
  THEN /\ act' = [act EXCEPT ![x] = NoAct]
       /\ TurnBecomes(x, Answered([turn[x] EXCEPT !.told = @ \/ (ok /\ act[x].does = "create_task")], ok))
  ELSE act' = [act EXCEPT ![x] = DoneAct] /\ UNCHANGED <<turn, talker>>

\* The evidence has come: the action no longer applies, or it was executed
\* before, or it begins.  Other actions take effect and may wait for that.
Checked(x) ==
  LET does == act[x].does IN
  /\ act[x].at = "checking"
  /\ \/ does # "create_task" /\ Replies(x, FALSE) /\ UNCHANGED tasks
     \/ does = "create_task" /\ receipt /\ Replies(x, TRUE) /\ UNCHANGED tasks
     \/ /\ does = "create_task" /\ ~receipt
        /\ tasks' = tasks + 1
        /\ ActBecomes(x, "sizing", FALSE)
        /\ UNCHANGED <<turn, talker>>
     \/ /\ does = "other"
        /\ \E ok \in BOOLEAN : ActBecomes(x, "reporting", ok)
        /\ UNCHANGED <<turn, talker, tasks>>
  /\ UNCHANGED <<pending, executed, receipt, conversation, events>>

\* The new Task is sized and the autopilot told: the receipt is saved.
Sized(x) ==
  /\ act[x].at = "sizing"
  /\ receipt' = (conversation # "deleted")   \* else it goes to a new conversation
  /\ ActBecomes(x, "reporting", TRUE)
  /\ UNCHANGED <<turn, pending, executed, talker, tasks, conversation, events>>

Reported(x) ==
  /\ act[x].at = "reporting"
  /\ Replies(x, act[x].ok)
  /\ UNCHANGED <<pending, executed, tasks, receipt, conversation, events>>

-----------------------------------------------------------------------------
\* The transcript keeps its last hundred messages.
TranscriptPruned ==
  /\ Interferes
  /\ receipt
  /\ receipt' = FALSE
  /\ UNCHANGED <<turn, act, pending, executed, talker, tasks, conversation>>

DeleteThread ==
  /\ Interferes
  /\ conversation = "open"
  /\ conversation' = "deleted" /\ receipt' = FALSE
  /\ UNCHANGED <<turn, act, pending, executed, talker, tasks>>

ChatShutdown ==
  /\ Interferes
  /\ conversation = "open"
  /\ conversation' = "down"
  /\ pending' = [a \in Asks |-> IF pending[a] = "waiting" THEN "expired" ELSE pending[a]]
  /\ UNCHANGED <<turn, act, executed, talker, tasks, receipt>>

\* Who will be heard: the messages and clicks of the behaviour.
ChatStarts(asks, clicks) ==
  /\ turn = [a \in Asks |-> IF a \in asks THEN Unsent ELSE Ended(Unsent)]
  /\ act = [x \in Asks \cup Clicks |-> IF x \in asks \cup clicks THEN NoAct ELSE DoneAct]
  /\ pending = [a \in Asks |-> "none"]
  /\ executed = [a \in Asks |-> 0]
  /\ talker = [p \in Talkers |-> NoTalker]
  /\ tasks = 0 /\ receipt = FALSE
  /\ conversation = "open" /\ events = 0

ChatInit == ChatStarts(Asks, Clicks)

\* What goes on by itself, for a message or a click.
TurnGoesOn(a) == \/ Gathered(a) \/ Commanded(a) \/ Acquired(a)
                 \/ SelectedAcquired(a) \/ Thought(a) \/ ToolEnds(a)
ActGoesOn(x) == \/ Checked(x) \/ Sized(x) \/ Reported(x)

ChatNext ==
  \/ \E a \in Asks : AskSent(a) \/ TurnGoesOn(a) \/ ToolCalled(a) \/ CancelChat(a) \/ PendingExpires(a)
  \/ \E c \in Clicks : \/ \E action \in Governed : Requested(c, action)
                       \/ \E a \in Asks : Approved(c, a)
                       \/ ApprovedRuns(c)
  \/ \E x \in Asks \cup Clicks : ActGoesOn(x)
  \/ TranscriptPruned \/ DeleteThread \/ ChatShutdown

\* Evidence, leases, commands, installations, sizings and providers end: each
\* has a timeout of its own.  Whether a provider ever finishes is its choice.
ChatFairness ==
  /\ \A a \in Asks : WF_chatVars(TurnGoesOn(a))
  /\ \A x \in Asks \cup Clicks : WF_chatVars(ActGoesOn(x))

ChatSpec == ChatInit /\ [][ChatNext]_chatVars /\ ChatFairness

-----------------------------------------------------------------------------
\* Turns, actions and leases are typed, and no turn exceeds its budget of
\* iterations and tool calls (maxIterations, maxToolCalls).
ChatTypeOK ==
  /\ turn \in [Asks -> [at : {"unsent", "gathering", "commanding", "acting",
                             "acquiring", "thinking", "looking", "running", "tool", "ended"},
                        mode : AccessModes, message : Messages, selected : Talkers \cup {NoTalker},
                        aborted : BOOLEAN, provider : Talkers \cup {NoTalker},
                        excluded : SUBSET Talkers, iterations : 0 .. MaxIterations,
                        toolCalls : 0 .. MaxToolCalls, committed : BOOLEAN, told : BOOLEAN,
                        by : Talkers \cup {NoTalker}]]
  /\ act \in [Asks \cup Clicks ->
       [at : {"none", "checking", "approved", "sizing", "reporting", "ended"},
        does : Governed \cup Asks, ok : BOOLEAN]]
  /\ pending \in [Asks -> {"none", "waiting", "approved", "expired"}]
  /\ executed \in [Asks -> Nat] /\ tasks \in Nat
  /\ talker \in [Talkers -> Asks \cup {NoTalker}]
  /\ receipt \in BOOLEAN
  /\ conversation \in {"open", "deleted", "down"} /\ events \in 0 .. MaxChatEvents

\* A command runs once, and one that needed approval only after an approval
\* that was in time: no double click, no approval of an expired command and no
\* shutdown between the click and the command changes that (executePendingCommand).
CommandRunsOnce ==
  \A a \in Asks :
    /\ executed[a] <= 1
    /\ executed[a] = 1 => pending[a] \in {"none", "approved"}
    /\ turn[a].mode = "approval" /\ executed[a] = 1 => pending[a] = "approved"

\* Once a tool of a provider reported an effect, no other provider acts in the
\* turn: the fallback repeats nothing (mutationCommitted in synthesizeWithAgentLoop).
FallbackRepeatsNothing ==
  \A a \in Asks : turn[a].by # NoTalker => turn[a].provider \in {turn[a].by, NoTalker}

\* A request to create the Task again, however late, finds the receipt of the
\* first and creates nothing (findCompletedChatAction).
ReceiptIsFinal == [][receipt => tasks' = tasks]_chatVars

\* Nothing is done a second time: not the command, not what a tool of a provider
\* that failed did, and not the creation of the Task.
ChatRepeatsNothing ==
  /\ [](CommandRunsOnce /\ FallbackRepeatsNothing)
  /\ ReceiptIsFinal

\* What must end, for every message is answered: providers that fail are not asked
\* again, tools and iterations are counted, and a cancelled turn ends (the agent loop).
TurnAtWork == \E a \in Asks : turn[a].at \notin {"unsent", "ended"}
=============================================================================
