---------------------------- MODULE MCWorkbench ----------------------------
(* What must come to an end by itself: the calls of the Goal runner, the     *)
(* turns of the chat, the executions of providers, the notices about Feature *)
(* Plans, and the messages of Telegram with the intake of work.  They share  *)
(* no state; one of them acts in a behaviour: `focus`.                       *)
EXTENDS MCGoalRunner, OperationalChat, ProviderProcess, LifecycleNotifier, TelegramGateway

CONSTANTS a1, a2, c1, c2, p1, i1, i2

VARIABLE focus

MCSent == [a \in Asks |->
  LET Message(mode, message, selected) ==
        [mode |-> mode, message |-> message, selected |-> selected]
  IN IF a = a1
     THEN {Message("full", "talk", NoTalker), Message("full", "talk", p1),
           Message("standard", "command", NoTalker), Message("full", "recover", NoTalker),
           Message("full", "start", NoTalker)}
     ELSE {Message("approval", "command", NoTalker)}]

\* A message and a click, a message that waits for either of two clicks, or two
\* messages.
ChatsToCheck == ChatStarts({a1}, {c1}) \/ ChatStarts({a2}, {c1, c2}) \/ ChatStarts({a1, a2}, {})

\* A request for a Feature Plan that is repeated as a direct Task or left to the
\* policy, another one that is too short for a plan, and every other kind.
AQuery == Says("query", NoIntake, "none", NoIntake)
AChange == Says("change", NoIntake, "none", NoIntake)
MCWritten ==
  <<{FeatureCommand(i1), FollowUpCommand, ChatCommand(GeneralChat), AChange,
     Says("action", NoIntake, "none", NoIntake), [AChange EXCEPT !.parses = FALSE]},
    {TaskCommand(i1), IntakeCommand(i1), FeatureCommand(i2), PreviewCommand(i1), PlainText,
     Says("request", NoIntake, "none", NoIntake), [AChange EXCEPT !.allowed = FALSE], AQuery}>>

\* Where a part does not act: the run is over, nobody asked, and nothing it does
\* by itself is left to do, so that fairness asks nothing of it.
ChatAtRest == ChatStarts({}, {})
ProcessAtRest == ProcessInit /\ adapter = "codex"
NotifierAtRest == NotifierStarts(<<Event("cursor", 0)>>)
TelegramAtRest == TelegramStarts("polling", [u \in Updates |-> AQuery], MaxSubmissions)
GatewaysAtRest == NotifierAtRest /\ TelegramAtRest

\* Messages only, or the dashboard only: an intake id contains its channel.
TelegramToCheck ==
  TelegramStarts("down", <<>>, MaxSubmissions) \/ TelegramStarts("down", [u \in Updates |-> AQuery], 0)

MCInit ==
  \/ focus = "runner" /\ Init /\ ChatAtRest /\ ProcessAtRest /\ GatewaysAtRest
  \/ focus = "chat" /\ RunnerAtRest /\ ChatsToCheck /\ ProcessAtRest /\ GatewaysAtRest
  \/ focus = "process" /\ RunnerAtRest /\ ChatAtRest /\ ProcessInit /\ GatewaysAtRest
  \/ focus = "notices" /\ RunnerAtRest /\ ChatAtRest /\ ProcessAtRest /\ NotifierInit /\ TelegramAtRest
  \/ focus = "telegram" /\ RunnerAtRest /\ ChatAtRest /\ ProcessAtRest /\ NotifierAtRest /\ TelegramToCheck

gatewayVars == <<notifierVars, telegramVars>>
MCNext ==
  /\ UNCHANGED focus
  /\ \/ focus = "runner" /\ Next /\ UNCHANGED <<chatVars, processVars, gatewayVars>>
     \/ focus = "chat" /\ ChatNext /\ UNCHANGED <<vars, processVars, gatewayVars>>
     \/ focus = "process" /\ ProcessNext /\ UNCHANGED <<vars, chatVars, gatewayVars>>
     \/ focus = "notices" /\ NotifierNext /\ UNCHANGED <<vars, chatVars, processVars, telegramVars>>
     \/ focus = "telegram" /\ TelegramNext /\ UNCHANGED <<vars, chatVars, processVars, notifierVars>>

MCSpec ==
  /\ MCInit /\ [][MCNext]_<<vars, chatVars, processVars, gatewayVars, focus>>
  /\ WF_vars(RunTaskGoal) /\ ChatFairness /\ ProcessFairness
  /\ NotifierFairness /\ TelegramFairness

\* Every turn, execution, event and message is what its module says (the rows of
\* the runner are MCGoalWork's), and within the budgets of a chat turn.
PartsTypeOK == ChatTypeOK /\ ProcessTypeOK /\ NotifierTypeOK /\ TelegramTypeOK

\* What was begun comes to its end: the loop of a Goal, every turn of the chat,
\* every execution, every notice that was read and every message, of which one
\* part acts in a behaviour (runTaskGoal, runChatAgentLoop, runAgentProcess,
\* reconcile of the lifecycle worker, createTelegramBot).
AtWork == RunAtWork \/ TurnAtWork \/ ExecutionAtWork \/ NoticeAtWork \/ MessageAtWork
WorkSettles == []<>~AtWork
=============================================================================
