-------------------------- MODULE ProviderProcess --------------------------
(***************************************************************************)
(* src/agents: one execution of a provider, from the adapter's `execute`   *)
(* through the child process (`runAgentProcess`) or the request to an      *)
(* endpoint, to the result its caller works with.  Output, timers, the     *)
(* caller's abort and the end of the child race; whoever stops the child   *)
(* first gives it two seconds.                                             *)
(*                                                                         *)
(* Several executions of a provider may be in flight: they share the       *)
(* health it has cached, which decides whether it is chosen again, and     *)
(* which a probe that was slow may overwrite.  A provider also reviews     *)
(* completed Features (`reviewImprovements`); that tells nothing of its    *)
(* health.                                                                 *)
(***************************************************************************)
EXTENDS Naturals

CONSTANTS
  Executions,
  MaxReceived,     \* maxReceivedChars, in chunks
  MaxDuplicates    \* maxDuplicateChunks

ASSUME ReceivedBounds == MaxReceived \in Nat /\ MaxDuplicates \in Nat

VARIABLES
  adapter,  \* the class of the provider, which never changes
  exec,     \* each execution, see Execution
  health,   \* cachedHealth of the provider, "unknown" when it expired
  probing   \* a probe of its health is in flight

processVars == <<adapter, exec, health, probing>>

Commands == {"codex", "claude", "antigravity", "custom"}
Adapters == Commands \cup {"endpoint"}
Overdue == {"inactivity", "phase_timeout", "deadline"}
Floods == {"duplicate_output", "output_limit"}

\* What diagnostics say when no structure does (the patterns of classifyFailure).
Texts == {"quota", "auth_required", "offline", "capacity", "other"}
Answers == {"completed", "changes_requested", "blocked", "failed", "denied", "nothing"}
Retryable == {"quota", "auth_required", "timeout", "offline", "capacity"}

\* limited: the call has a deadline or its provider a maximal runtime.
\* child: the process, which may outlive the promise.
Execution ==
  [at : {"idle", "running", "stopping", "returned"}, limited : BOOLEAN,
   purpose : {"goal", "improvements"},
   child : {"none", "alive", "gone"}, aborted : BOOLEAN, breaker : Overdue \cup Floods \cup {"none"},
   stoppedBy : Overdue \cup Floods \cup {"none", "abort"},   \* history: the first to stop it
   received : 0 .. MaxReceived + 1, repeats : 0 .. MaxDuplicates,
   code : {"none", "zero", "other"},
   outcome : {"none", "completed", "changes_requested", "blocked", "failed", "cancelled"},
   category : Texts \cup {"none", "timeout", "output_limit"}]

NoExecution == [at |-> "idle", limited |-> FALSE, purpose |-> "goal", child |-> "none",
                aborted |-> FALSE, breaker |-> "none", stoppedBy |-> "none",
                received |-> 0, repeats |-> 0, code |-> "none",
                outcome |-> "none", category |-> "none"]

-----------------------------------------------------------------------------
\* runAgentProcess

\* stop: SIGTERM, and two seconds for the child.
Stops(x, by) ==
  IF x.at = "running" THEN [x EXCEPT !.at = "stopping", !.stoppedBy = by] ELSE x

TrippedAgain(x, reason) == Stops([x EXCEPT !.breaker = reason], reason)
\* tripBreaker: the first reason stands.
Tripped(x, reason) ==
  IF x.breaker = "none" THEN Stops([x EXCEPT !.breaker = reason], reason) ELSE x

\* consume: every chunk is counted, and one equal to the last is not kept.
Consumed(x, repeated) ==
  LET repeats == IF repeated THEN x.repeats + 1 ELSE 0
      y == [x EXCEPT !.received = @ + 1, !.repeats = repeats]
  IN CASE repeats >= MaxDuplicates -> Tripped(y, "duplicate_output")
       [] repeats < MaxDuplicates /\ y.received > MaxReceived -> Tripped(y, "output_limit")
       [] OTHER -> y

-----------------------------------------------------------------------------
\* What the adapter makes of the end of its process.

Verdict(outcome) == [outcome |-> outcome, category |-> "none"]
FailedOf(category) == [outcome |-> "failed", category |-> category]

\* classifyFailure: structure first, words after it.
Classified(x, said) ==
  CASE x.breaker \in Overdue -> "timeout"
    [] x.breaker \in Floods -> "output_limit"
    [] OTHER -> IF said \in Texts THEN said ELSE "other"

Approves(said) == IF said = "changes_requested" THEN said ELSE "completed"

\* The answer is a file, which names its outcome: without one that parses the
\* category is unknown.
CodexReports(x, said) ==
  IF x.code # "zero" THEN FailedOf(Classified(x, said))
  ELSE IF said \in {"completed", "changes_requested", "blocked", "failed"} THEN Verdict(said)
  ELSE FailedOf("other")

\* The answer is what the process printed.
ClaudeReports(x, said) ==
  IF x.code # "zero" \/ said = "nothing" THEN FailedOf(Classified(x, said))
  ELSE Verdict(Approves(said))

CustomReports(x, said) == ClaudeReports(x, said)

\* reviewImprovements of every adapter: any answer will do, its worker parses it.
ImprovementsReported(x, said) ==
  IF x.code # "zero" THEN FailedOf(Classified(x, said))
  ELSE IF said = "nothing" \/ (adapter = "antigravity" /\ said = "denied") THEN FailedOf("other")
  ELSE Verdict("completed")

\* A denied permission may come with exit code 0.
AntigravityReports(x, said) ==
  IF x.code = "zero" /\ said = "denied" THEN FailedOf("other") ELSE ClaudeReports(x, said)

\* Whatever its process did, an aborted execution is a cancelled one.
CommandReports(x, said) ==
  IF x.aborted THEN Verdict("cancelled")
  ELSE IF x.purpose = "improvements" THEN ImprovementsReported(x, said)
  ELSE CASE adapter = "codex" -> CodexReports(x, said)
         [] adapter = "claude" -> ClaudeReports(x, said)
         [] adapter = "antigravity" -> AntigravityReports(x, said)
         [] adapter = "custom" -> CustomReports(x, said)

\* The request fails by itself, or by the signal that ended it.  The body of an
\* error is read with its own catch: the abort that cuts it is not seen.
EndpointReports(x, said) ==
  IF said \in Texts THEN FailedOf(said)
  ELSE IF x.aborted THEN Verdict("cancelled")
  ELSE IF x.breaker # "none" THEN FailedOf("timeout")
  ELSE IF said = "nothing" THEN FailedOf("other")
  ELSE Verdict("completed")   \* a review is not asked for its verdict

\* Failures that count against the health of the provider.
HeldAgainst(x, category) ==
  \/ adapter = "claude" /\ category # "timeout"
  \/ adapter \in {"antigravity", "custom"} /\ category \in {"offline", "capacity"}
  \/ adapter = "antigravity" /\ category = "timeout" /\ x.breaker = "inactivity"

\* The health the adapter of a command caches with its result.
HealthAfter(x, r) ==
  IF r.outcome = "cancelled" \/ x.purpose = "improvements" THEN health
  ELSE IF r.category = "none" THEN "ready"   \* it answered
  ELSE IF r.category \in {"quota", "auth_required"} THEN r.category
  ELSE IF HeldAgainst(x, r.category) THEN "offline"
  ELSE IF adapter = "claude" THEN "ready" ELSE health

EndpointHealthAfter(said) == IF said \in Texts THEN health ELSE "ready"

Returns(e, x, r) ==
  exec' = [exec EXCEPT ![e] = [x EXCEPT !.at = "returned", !.outcome = r.outcome,
                                        !.category = r.category]]

-----------------------------------------------------------------------------
\* One action per event.

\* What an adapter answers without its command, workspace, endpoint or key, or
\* after its deadline, with the health it caches then.
NotStarted ==
  CASE adapter = "claude" -> {<<"other", "offline">>}
    [] adapter = "codex" -> {<<"other", health>>}
    [] adapter \in {"antigravity", "custom"} -> {<<"offline", health>>}
    [] adapter = "endpoint" -> {<<"other", "offline">>, <<"auth_required", "auth_required">>,
                                <<"other", health>>, <<"timeout", health>>}

\* execute starts a process or a request, or fails at once.
Executes(e, limited) ==
  LET x == [NoExecution EXCEPT !.limited = limited] IN
  /\ exec[e].at = "idle"
  /\ \/ /\ exec' = [exec EXCEPT ![e] = [x EXCEPT !.at = "running",
                        !.child = IF adapter \in Commands THEN "alive" ELSE "none"]]
        /\ UNCHANGED health
     \/ \E r \in NotStarted : Returns(e, x, FailedOf(r[1])) /\ health' = r[2]
  /\ UNCHANGED <<adapter, probing>>

\* An endpoint has no reviewImprovements; a review always has a time limit.
ReviewsImprovements(e) ==
  LET x == [NoExecution EXCEPT !.limited = TRUE, !.purpose = "improvements"] IN
  /\ exec[e].at = "idle" /\ adapter \in Commands
  /\ \/ exec' = [exec EXCEPT ![e] = [x EXCEPT !.at = "running", !.child = "alive"]]
     \/ Returns(e, x, FailedOf("other"))
  /\ UNCHANGED <<adapter, health, probing>>

OutputArrives(e) ==
  /\ exec[e].at \in {"running", "stopping"} /\ exec[e].child = "alive"
  /\ exec[e].received <= MaxReceived /\ exec[e].repeats < MaxDuplicates
  /\ \E repeated \in BOOLEAN : exec' = [exec EXCEPT ![e] = Consumed(exec[e], repeated)]
  /\ UNCHANGED <<adapter, health, probing>>

\* Nothing came for long enough.
FallsSilent(e) ==
  /\ exec[e].at \in {"running", "stopping"} /\ adapter # "endpoint"
  /\ exec' = [exec EXCEPT ![e] = Tripped(exec[e], "inactivity")]
  /\ UNCHANGED <<adapter, health, probing>>

\* The runtime of the provider, the deadline of the phase; an endpoint always
\* has one.
TimeIsUp(e) ==
  /\ exec[e].at \in {"running", "stopping"}
  /\ exec[e].limited \/ adapter = "endpoint"
  /\ \E reason \in {"phase_timeout", "deadline"} :
       exec' = [exec EXCEPT ![e] = Tripped(exec[e], reason)]
  /\ UNCHANGED <<adapter, health, probing>>

\* The caller's signal: a cancellation, or the shutdown of the program.
Aborts(e) ==
  /\ exec[e].at \in {"running", "stopping"} /\ ~exec[e].aborted
  /\ exec' = [exec EXCEPT ![e] = Stops([exec[e] EXCEPT !.aborted = TRUE], "abort")]
  /\ UNCHANGED <<adapter, health, probing>>

Settles(e, x, said) ==
  LET r == CommandReports(x, said)
  IN /\ Returns(e, x, r) /\ health' = HealthAfter(x, r)
     /\ UNCHANGED <<adapter, probing>>

\* The process ends, whether it was asked to or not, or never began.
Closes(e) ==
  /\ exec[e].at \in {"running", "stopping"} /\ exec[e].child = "alive"
  /\ \E code \in {"zero", "other"}, said \in Answers \cup Texts :
       Settles(e, [exec[e] EXCEPT !.child = "gone", !.code = code], said)

ForceFinishWhenTripped(e) ==
  /\ exec[e].at = "stopping" /\ exec[e].child = "alive" /\ exec[e].breaker # "none"
  /\ \E said \in Answers \cup Texts : Settles(e, [exec[e] EXCEPT !.code = "other"], said)
\* Two seconds after stop.  The child counts as killed since SIGTERM, so
\* nothing stronger is sent: it may go on.
ForceFinish(e) ==
  /\ exec[e].at = "stopping" /\ exec[e].child = "alive"
  /\ \E said \in Answers \cup Texts : Settles(e, [exec[e] EXCEPT !.code = "other"], said)

LeftBehindEnds(e) ==
  /\ exec[e].at = "returned" /\ exec[e].child = "alive"
  /\ exec' = [exec EXCEPT ![e].child = "gone"]
  /\ UNCHANGED <<adapter, health, probing>>

EndpointAnswers(e) ==
  /\ exec[e].at \in {"running", "stopping"} /\ adapter = "endpoint"
  /\ \E said \in {"completed", "nothing"} \cup Texts :
       /\ Returns(e, exec[e], EndpointReports(exec[e], said))
       /\ health' = IF exec[e].aborted \/ exec[e].breaker # "none" THEN health
                    ELSE EndpointHealthAfter(said)
  /\ UNCHANGED <<adapter, probing>>

\* health: what was cached is answered while it is fresh.  Otherwise a login
\* file or a key is looked for, or the command or the endpoint is probed.
LoginHealth == {"ready", "auth_required", "offline"}
AntigravityHealth == {"ready", "auth_required", "offline"}
CustomHealth == {"ready", "auth_required", "offline"}
EndpointHealth == {"ready", "auth_required", "offline", "quota"}
HealthSeen ==
  CASE adapter \in {"codex", "claude"} -> LoginHealth
    [] adapter = "antigravity" -> AntigravityHealth
    [] adapter = "custom" -> CustomHealth
    [] adapter = "endpoint" -> EndpointHealth

HealthAsked ==
  /\ health = "unknown" /\ ~probing
  /\ \/ health' \in HealthSeen /\ UNCHANGED probing
     \/ adapter \notin {"codex", "claude"} /\ probing' = TRUE /\ UNCHANGED health
  /\ UNCHANGED <<adapter, exec>>

\* Whatever an execution learned meanwhile is overwritten.
ProbeEnds ==
  /\ probing
  /\ probing' = FALSE /\ health' \in HealthSeen
  /\ UNCHANGED <<adapter, exec>>

\* The cache expires, or a person asks for a refresh.
HealthExpires ==
  /\ health # "unknown"
  /\ health' = "unknown"
  /\ UNCHANGED <<adapter, exec, probing>>

ProcessInit ==
  /\ adapter \in Adapters
  /\ exec = [e \in Executions |-> NoExecution]
  /\ health = "unknown" /\ probing = FALSE

\* What the child or the endpoint does by itself, the silence included.
ChildActs(e) == OutputArrives(e) \/ FallsSilent(e) \/ Closes(e)

ProcessNext ==
  \/ \E e \in Executions :
       \/ \E limited \in BOOLEAN : Executes(e, limited)
       \/ ReviewsImprovements(e)
       \/ ChildActs(e) \/ TimeIsUp(e) \/ Aborts(e) \/ ForceFinish(e)
       \/ LeftBehindEnds(e) \/ EndpointAnswers(e)
  \/ HealthAsked \/ ProbeEnds \/ HealthExpires

\* Timers fire, and a running child prints, ends or falls silent.  Nothing is
\* asked of a child that was told to stop.  A fetch whose signal fired rejects.
ProcessFairness ==
  \A e \in Executions :
    /\ WF_processVars(exec[e].at = "running" /\ ChildActs(e))
    /\ WF_processVars(TimeIsUp(e)) /\ WF_processVars(ForceFinish(e))
    /\ WF_processVars(exec[e].at = "stopping" /\ EndpointAnswers(e))

ProcessSpec == ProcessInit /\ [][ProcessNext]_processVars /\ ProcessFairness

-----------------------------------------------------------------------------
ProcessTypeOK ==
  /\ exec \in [Executions -> Execution]
  /\ adapter \in Adapters /\ probing \in BOOLEAN
  /\ health \in {"unknown", "ready", "auth_required", "offline", "quota"}

\* The result says why the execution ended: aborted in time it is never a
\* completed one, whatever the process still answered; and when the process
\* was stopped and failed, the first reason decides whether the phase is
\* retried (a timeout) or not (a flood), not what a later timer or the last
\* words of the process say (tripBreaker, classifyFailure).
StopIsReported ==
  \A e \in Executions :
    LET x == exec[e] IN
    x.at = "returned" =>
      /\ x.aborted => x.outcome \in {"cancelled", "failed"}
      /\ x.aborted /\ adapter \in Commands => x.outcome = "cancelled"
      /\ x.outcome = "failed" /\ adapter \in Commands /\ x.code = "other" =>
           /\ x.stoppedBy \in Floods => x.category \notin Retryable
           /\ x.stoppedBy \in Overdue => x.category \in Retryable

\* What must end, with a child that never ends, prints for ever or ignores
\* SIGTERM, and with an endpoint that never answers (runAgentProcess).
ExecutionAtWork == \E e \in Executions : exec[e].at \in {"running", "stopping"}
=============================================================================
