-------------------------- MODULE TelegramGateway --------------------------
(***************************************************************************)
(* src/telegram/bot.ts: the messages of a chat become commands, one after  *)
(* the other, and every command is answered.  The dashboard submits work   *)
(* of its own beside them (WorkIntake).                                    *)
(*                                                                         *)
(* Telegram keeps a message until the bot asks for what follows it, which  *)
(* the library (grammY) does after a batch: a program that dies sees the   *)
(* messages of the batch again.  A handler that throws, because even the   *)
(* answer about its error could not be sent, ends the bot: the polling bot *)
(* has no error handler.                                                   *)
(***************************************************************************)
EXTENDS WorkIntake, Functions

CONSTANTS
  Updates,        \* the ids of the messages, 1 .. n
  Written,        \* what may be written in each: kind, request, project and sender
  ChatProjects,   \* the general chat and the projects
  GeneralChat,
  MaxSubmissions  \* bound on what the dashboard submits

\* The ids of the messages go up by one (those Telegram gives may leave gaps), and a
\* command about a request names one.
TelegramMessage ==
  [kind : {"query", "submit", "preview", "follow_up", "change", "request", "talk", "action"},
   of : Intakes \cup {NoIntake}, input : Inputs, project : ChatProjects \cup {NoIntake},
   allowed : BOOLEAN, parses : BOOLEAN]
ASSUME GatewayBounds ==
  /\ Updates \subseteq Nat \ {0} /\ \A u \in Updates : 1 .. u \subseteq Updates
  /\ Written \in [Updates -> SUBSET TelegramMessage]
  /\ \A u \in Updates : \A m \in Written[u] : m.kind \in {"submit", "preview"} => m.of \in Intakes
  /\ GeneralChat \in ChatProjects /\ MaxSubmissions \in Nat /\ MaxIntakeDeaths \in Nat

VARIABLES
  bot,        \* long polling goes on, or not
  written,    \* the messages so far
  confirmed,  \* Telegram forgets messages up to this one
  tried,      \* the last message this bot began to handle
  batch,      \* the last message this bot was given
  handler,    \* where the handler of message `tried` is
  effects,    \* how often each message changed something (history)
  refused,    \* messages whose command was refused (history)
  handled,    \* how often each message was begun (history)
  chosen,   \* the latest event telegram.chat_project_selected
  cached,     \* activeChatProjectByUser, NoIntake before it was looked up
  submitted   \* submissions of the dashboard

botVars == <<bot, written, confirmed, tried, batch, handler, effects, refused, handled,
             chosen, cached>>
telegramVars == <<botVars, submitted, intakeVars>>

\* What a message says, to whom it is allowed or not, and whether it parses.
Says(kind, of, override, project) ==
  [kind |-> kind, of |-> of, input |-> [override |-> override, large |-> FALSE],
   project |-> project, allowed |-> TRUE, parses |-> TRUE]

\* /intake, /intake_preview, /task and /feature with the text of request i.  The
\* override is the command's own; the hash of the request knows nothing of it.
IntakeCommand(i) == Says("submit", i, "none", NoIntake)
PreviewCommand(i) == Says("preview", i, "none", NoIntake)
TaskCommand(i) == Says("submit", i, "direct_task", NoIntake)
FeatureCommand(i) == Says("submit", i, "feature_plan", NoIntake)
FollowUpCommand == Says("follow_up", NoIntake, "none", NoIntake)
\* /chat with a text, for a project or for the one selected last; and plain text.
ChatCommand(project) == Says("talk", NoIntake, "none", project)
PlainText == Says("talk", NoIntake, "none", NoIntake)

HandlerBecomes(at) == handler' = at
Changes(u) == effects' = [effects EXCEPT ![u] = @ + 1]
Refuses(u) == refused' = refused \cup {u}

\* isUserAllowed
Allowed(m) == m.allowed

\* The project of a message that names none: the cache, or the latest event.
Selected == IF cached = NoIntake THEN chosen ELSE cached

-----------------------------------------------------------------------------
\* The handlers of the bot, for the message m with the id tried'

\* The auth middleware: an event, and an answer.
Denied(m) ==
  /\ ~Allowed(m) /\ Refuses(tried')
  /\ HandlerBecomes("replying")
  /\ UNCHANGED <<effects, chosen, cached, intakeVars>>

\* A command that does not parse is answered with its usage.
Unparsed(m) ==
  /\ Allowed(m) /\ ~m.parses /\ Refuses(tried')
  /\ HandlerBecomes("replying")
  /\ UNCHANGED <<effects, chosen, cached, intakeVars>>

Handled(m, kind) == Allowed(m) /\ m.parses /\ m.kind = kind

\* start, help, status, cost, projects, doctor, queue, graphs, improvements,
\* features and review_status only look, after an await or not.
Queried(m) ==
  /\ Handled(m, "query") /\ Refuses(tried')
  /\ HandlerBecomes("replying")
  /\ UNCHANGED <<effects, chosen, cached, intakeVars>>

\* task, feature and intake: explicitOverride is the command's, the hash is not;
\* the workspace is always approved.
WorkSubmitted(m) ==
  /\ Handled(m, "submit") /\ Changes(tried')
  /\ SubmitsAgain(m.of, TRUE) \/ Submits(m.of, m.input, TRUE)
  /\ HandlerBecomes("replying")
  /\ UNCHANGED <<refused, chosen, cached>>

Previewed(m) ==
  /\ Handled(m, "preview") /\ Changes(tried')
  /\ Previews(m.of, m.input)
  /\ HandlerBecomes("replying")
  /\ UNCHANGED <<refused, chosen, cached>>

FollowedUp(m) ==
  /\ Handled(m, "follow_up") /\ Changes(tried')
  /\ CreatesDirectly(TRUE)
  /\ HandlerBecomes("replying")
  /\ UNCHANGED <<refused, chosen, cached>>

\* project_add, prepare, cancel, improve_approve, improve_reject and the
\* commands of Feature Plans: the command is applied or throws.
Changed(m) ==
  /\ Handled(m, "change")
  /\ \/ Changes(tried') /\ UNCHANGED refused
     \/ Refuses(tried') /\ UNCHANGED effects
  /\ HandlerBecomes("replying")
  /\ UNCHANGED <<chosen, cached, intakeVars>>

\* review, review_retry, feature_cancel, graph_cancel and update await GitHub, a
\* provider or the end of others before they change anything.
ReviewAwaited(m) ==
  /\ Handled(m, "request")
  /\ HandlerBecomes("awaiting")
  /\ UNCHANGED <<effects, refused, chosen, cached, intakeVars>>

\* chat and plain text: /chat with a project, or without a text, selects it; what
\* the chat does is awaited.
Talked(m) ==
  /\ Handled(m, "talk")
  /\ IF m.project # NoIntake THEN chosen' = m.project /\ cached' = m.project
     ELSE cached' = Selected /\ UNCHANGED chosen
  /\ HandlerBecomes("awaiting")
  /\ UNCHANGED <<effects, refused, intakeVars>>

\* chat_action looks up the project, and awaits the evidence: an action that no
\* longer applies, or needs to be confirmed, is refused, and others are executed.
ActionTaken(m) ==
  /\ Handled(m, "action")
  /\ cached' = Selected
  /\ HandlerBecomes("acting")
  /\ UNCHANGED <<effects, refused, chosen, intakeVars>>

\* What was awaited ends.  The project an action created is selected.
Awaited ==
  /\ bot = "polling" /\ handler \in {"awaiting", "acting"}
  /\ \/ Changes(tried) /\ UNCHANGED <<refused, chosen, cached>>
     \/ Refuses(tried) /\ UNCHANGED <<effects, chosen, cached>>
     \/ /\ handler = "acting"
        /\ \E p \in ChatProjects \ {GeneralChat} :
             Changes(tried) /\ chosen' = p /\ cached' = p /\ UNCHANGED refused
  /\ HandlerBecomes("replying")
  /\ UNCHANGED <<bot, written, confirmed, tried, batch, handled, submitted, intakeVars>>

Handles ==
  /\ bot = "polling" /\ handler = "none" /\ tried < batch /\ submit.at = "none"
  /\ tried' = tried + 1
  /\ handled' = [handled EXCEPT ![tried'] = @ + 1]
  /\ LET m == written[tried'] IN
       \/ Denied(m) \/ Unparsed(m) \/ Queried(m) \/ WorkSubmitted(m) \/ Previewed(m)
       \/ FollowedUp(m) \/ Changed(m) \/ ReviewAwaited(m) \/ Talked(m) \/ ActionTaken(m)
  /\ UNCHANGED <<bot, written, confirmed, batch, submitted>>

\* The answer, or the answer that it failed, is sent.
Replied ==
  /\ bot = "polling" /\ handler = "replying" /\ submit.at = "none"
  /\ HandlerBecomes("none")
  /\ UNCHANGED <<bot, written, confirmed, tried, batch, effects, refused, handled, chosen,
                 cached, submitted, intakeVars>>

-----------------------------------------------------------------------------
\* Telegram and the library

MessageWritten(m) ==
  /\ Len(written) + 1 \in Updates /\ m \in Written[Len(written) + 1]
  /\ written' = Append(written, m)
  /\ UNCHANGED <<bot, confirmed, tried, batch, handler, effects, refused, handled, chosen,
                 cached, submitted, intakeVars>>

\* getUpdates confirms what was tried and brings what has come.
Polls ==
  /\ bot = "polling" /\ handler = "none" /\ tried = batch
  /\ Len(written) > batch \/ tried > confirmed
  /\ confirmed' = tried /\ batch' = Len(written)
  /\ UNCHANGED <<bot, written, tried, handler, effects, refused, handled, chosen, cached,
                 submitted, intakeVars>>

GatewayDeath == intakeDeaths < MaxIntakeDeaths /\ intakeDeaths' = intakeDeaths + 1

\* No answer can be sent: the library stops the bot, confirms what was tried
\* if it can, and the rejected promise of `bot.start` ends the program.
ReplyThrows ==
  /\ bot = "polling" /\ handler = "replying" /\ submit.at = "none" /\ GatewayDeath
  /\ bot' = "down" /\ handler' = "none" /\ confirmed' \in {confirmed, tried}
  /\ UNCHANGED <<written, tried, batch, effects, refused, handled, chosen, cached,
                 submitted>>
  /\ UNCHANGED <<intakeTasks, decisions, submissions, operations, submit, torn, granted>>

GatewayDies ==
  /\ bot = "polling"
  /\ \/ IntakeDies
     \/ submit.at = "none" /\ GatewayDeath
        /\ UNCHANGED <<intakeTasks, decisions, submissions, operations, submit, torn, granted>>
  /\ bot' = "down" /\ handler' = "none"
  /\ UNCHANGED <<written, confirmed, tried, batch, effects, refused, handled, chosen, cached,
                 submitted>>

\* TelegramSubsystemManager.start, with a bot that knows nothing.
BotStarts ==
  /\ bot = "down"
  /\ bot' = "polling" /\ tried' = confirmed /\ batch' = confirmed /\ cached' = NoIntake
  /\ UNCHANGED <<written, confirmed, handler, effects, refused, handled, chosen,
                 submitted, intakeVars>>

\* The dashboard's POST of work, of its preview, of a Task or of a follow-up.
DashboardSubmits ==
  /\ bot = "polling" /\ UNCHANGED botVars
  /\ submitted < MaxSubmissions /\ submitted' = submitted + 1
  /\ \/ \E i \in Intakes, approved \in BOOLEAN :
          \/ SubmitsAgain(i, approved)
          \/ \E input \in Inputs : Submits(i, input, approved) \/ Previews(i, input)
     \/ \E approved \in BOOLEAN : CreatesDirectly(approved)

\* From messages that were all refused, and submissions of the dashboard that
\* count against the bound.
TelegramStarts(state, messages, submissions0) ==
  /\ IntakeInit
  /\ bot = state /\ written = messages /\ handler = "none"
  /\ confirmed = Len(messages) /\ tried = Len(messages) /\ batch = Len(messages)
  /\ effects = [u \in Updates |-> 0] /\ handled = [u \in Updates |-> 0]
  /\ refused = DOMAIN messages
  /\ chosen = GeneralChat /\ cached = NoIntake
  /\ submitted = submissions0

TelegramInit == TelegramStarts("down", <<>>, 0)

TelegramNext ==
  \/ Handles \/ Awaited \/ Replied \/ Polls
  \/ ReplyThrows \/ GatewayDies \/ BotStarts \/ DashboardSubmits
  \/ \E m \in UNION Range(Written) : MessageWritten(m)
  \/ SubmitGoesOn /\ UNCHANGED <<botVars, submitted>>

\* The program is started again, the bot polls, the chat ends its turns
\* and an answer is sent or throws.
TelegramFairness ==
  WF_telegramVars(BotStarts \/ Polls \/ Handles \/ Awaited \/ Replied
                  \/ (SubmitGoesOn /\ UNCHANGED <<botVars, submitted>>))

TelegramSpec == TelegramInit /\ [][TelegramNext]_telegramVars /\ TelegramFairness

-----------------------------------------------------------------------------
TelegramTypeOK ==
  /\ IntakeTypeOK
  /\ bot \in {"down", "polling"} /\ written \in Seq(UNION Range(Written))
  /\ {confirmed, tried, batch} \subseteq Updates \cup {0}
  /\ handler \in {"none", "awaiting", "acting", "replying"}
  /\ effects \in [Updates -> Nat] /\ handled \in [Updates -> Nat] /\ refused \subseteq Updates
  /\ chosen \in ChatProjects /\ cached \in ChatProjects \cup {NoIntake}
  /\ submitted \in 0 .. MaxSubmissions

\* A message Telegram has forgotten was applied or refused, a stranger's changed
\* nothing, a repeated one only follows a death, and the bot talks
\* about the project that was selected last, also after its program died.
MessagesAreKept ==
  /\ \A u \in 1 .. confirmed :
       effects[u] > 0 \/ u \in refused
  /\ \A u \in 1 .. Len(written) :
       /\ effects[u] > 0 => Allowed(written[u])
       /\ handled[u] <= 1 + intakeDeaths
  /\ cached \in {NoIntake, chosen}

\* No way to submit or to repeat a request makes more of it than it should, and
\* no message is lost on the way.
RequestsAreSound == SubmissionIsSound /\ MessagesAreKept

\* What must end: a message Telegram has not forgotten yet.
MessageAtWork == Len(written) > confirmed
=============================================================================
