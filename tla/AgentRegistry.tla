--------------------------- MODULE AgentRegistry ---------------------------
(***************************************************************************)
(* src/agents/registry.ts: the provider control plane.  Callers (Goal      *)
(* steps, Work Graph nodes, sizing, chat turns) ask for a lease on one     *)
(* provider; `acquire` walks the providers in policy order and AWAITS the  *)
(* health of each candidate, so the user's control actions (connect,       *)
(* disconnect, replace, pause, reroute) and other callers run in between.  *)
(*                                                                         *)
(* JavaScript runs one segment between two awaits without interruption:    *)
(* every action below is one such segment.  Providers stands for the       *)
(* providers whose adapter advertises the requested capability: any other  *)
(* is skipped like one that is not registered.                             *)
(***************************************************************************)
EXTENDS Integers, FiniteSets

CONSTANTS
  Providers,          \* provider ids
  Builtin,            \* the ids of the runtime catalog; the others are custom
  Callers,            \* concurrent users of the registry
  NoProvider,         \* JavaScript's null
  Limit,              \* providerLimits: concurrent leases of each provider
  DefaultRank,        \* DEFAULT_ROUTING_ORDER as ranks, smaller is earlier
  MaxControlActions   \* bound on the user's control actions

ASSUME RegistryAssumptions ==
  /\ IsFiniteSet(Providers)
  /\ Builtin \subseteq Providers
  /\ IsFiniteSet(Callers)
  /\ NoProvider \notin Providers
  /\ Limit \in [Providers -> Nat \ {0}]
  /\ DefaultRank \in [Providers -> Nat \ {0}]
  /\ MaxControlActions \in Nat

VARIABLES
  registered,      \* keys of `providers`
  generation,      \* which adapter object `providers` maps the id to
  connected,       \* connectedProviderIds
  activeLeases,    \* activeLeases, 0 for a missing entry
  cooldowns,       \* providers whose cooldown has not run out
  mode,            \* provider_controls.mode
  fallbackEnabled, \* provider_controls.fallback_enabled
  position,        \* place in the configured order, 0 when not in it
  required,        \* required_provider_id
  call,            \* what each caller is doing
  controlActions   \* control actions taken so far

policy == <<mode, fallbackEnabled, position, required>>
catalog == <<registered, generation, connected>>
vars == <<catalog, activeLeases, cooldowns, policy, call, controlActions>>

\* "disabled" is treated like "paused" by every line modelled here.
Modes == {"enabled", "paused"}

\* What a caller is doing: awaiting the health of `provider` (todo holds the
\* candidates after it, ranked by `rank`), holding a lease on the adapter
\* object `generation` of `provider`, or keeping a lease already released.
Calls == [at : {"idle", "probing", "leased", "released"},
          provider : Providers \cup {NoProvider},
          generation : Nat,
          todo : SUBSET Providers,
          rank : [Providers -> Nat]]

Idle == [at |-> "idle", provider |-> NoProvider, generation |-> 0,
         todo |-> {}, rank |-> [p \in Providers |-> 0]]

Holds(c, p) == call[c].at = "leased" /\ call[c].provider = p
Holders(p) == {c \in Callers : Holds(c, p)}

-----------------------------------------------------------------------------
(* Routing: src/agents/policy.ts                                           *)

\* The configured order first, then the defaults it does not name.
Rank == [p \in Providers |->
           IF position[p] > 0 THEN position[p]
           ELSE Cardinality(Providers) + DefaultRank[p]]

IsEarliest(p, S, rank) == p \in S /\ \A q \in S : rank[p] <= rank[q]

Enabled == {p \in Providers : mode[p] = "enabled"}

\* resolveProviderOrder: enabled providers, restricted to the required one or
\* to a first one without fallback, whether or not that one is connected.
ResolvedOrder ==
  LET alone == {p \in Enabled : IsEarliest(p, Enabled, Rank) /\ ~fallbackEnabled[p]}
  IN IF required # NoProvider THEN Enabled \cap {required}
     ELSE IF alone # {} THEN alone ELSE Enabled

\* providerOrder
ProviderOrder == ResolvedOrder \cap registered \cap connected

\* prioritizedProviderOrder: the preferred provider moves to the front.
PrioritizedRank(preferred) ==
  IF preferred \in ProviderOrder THEN [Rank EXCEPT ![preferred] = 0] ELSE Rank

-----------------------------------------------------------------------------
(* acquire and release                                                     *)

Probeable(p) == /\ p \notin cooldowns
                /\ p \in registered
                /\ activeLeases[p] < Limit[p]

\* The loop of `acquire` up to its next await, or to its `return null`.
ProbeNextAgain(c, todo, rank) ==
  LET open == {p \in todo : Probeable(p)} IN
  \/ open = {} /\ call' = [call EXCEPT ![c] = Idle]
  \/ \E next \in Providers :
       /\ IsEarliest(next, open, rank)
       /\ call' = [call EXCEPT ![c] =
            [at |-> "probing", provider |-> next, generation |-> generation[next],
             todo |-> todo, rank |-> rank]]
ProbeNext(c, todo, rank) ==
  LET open == {p \in todo : Probeable(p)} IN
  \/ /\ open = {}
     /\ call' = [call EXCEPT ![c] = Idle]
  \/ \E next \in Providers :
       LET left == {p \in todo : rank[p] > rank[next]} IN
       /\ IsEarliest(next, open, rank)
       /\ call' = [call EXCEPT ![c] =
            [at |-> "probing", provider |-> next,
             generation |-> generation[next], todo |-> left,
             rank |-> [p \in Providers |-> IF p \in left THEN rank[p] ELSE 0]]]

Acquire(c, excluded, preferred) ==
  /\ call[c].at \in {"idle", "released"}
  /\ ProbeNext(c, ProviderOrder \ excluded, PrioritizedRank(preferred))
  /\ UNCHANGED <<catalog, activeLeases, cooldowns, policy, controlActions>>

\* acquireProvider: one explicitly selected provider, cooldown or not.
AcquireProvider(c, p) ==
  /\ call[c].at \in {"idle", "released"}
  /\ p \in registered \cap connected \cap Enabled
  /\ activeLeases[p] < Limit[p]
  /\ call' = [call EXCEPT ![c] =
       [Idle EXCEPT !.at = "probing", !.provider = p,
                    !.generation = generation[p]]]
  /\ UNCHANGED <<catalog, activeLeases, cooldowns, policy, controlActions>>

\* health() answered "ready": the limit is read again, then the lease counts.
HealthReadyUnchecked(c) ==
  LET p == call[c].provider IN
  /\ call[c].at = "probing"
  /\ activeLeases' = [activeLeases EXCEPT ![p] = @ + 1]
  /\ call' = [call EXCEPT ![c] = [Idle EXCEPT !.at = "leased", !.provider = p,
                                    !.generation = call[c].generation]]
  /\ UNCHANGED <<catalog, cooldowns, policy, controlActions>>
HealthReady(c) ==
  LET p == call[c].provider IN
  /\ call[c].at = "probing"
  /\ IF activeLeases[p] < Limit[p]
     THEN /\ activeLeases' = [activeLeases EXCEPT ![p] = @ + 1]
          /\ call' = [call EXCEPT ![c] =
               [Idle EXCEPT !.at = "leased", !.provider = p,
                            !.generation = call[c].generation]]
     ELSE /\ ProbeNext(c, call[c].todo, call[c].rank)
          /\ UNCHANGED activeLeases
  /\ UNCHANGED <<catalog, cooldowns, policy, controlActions>>

\* health() answered anything else.
HealthNotReady(c) ==
  /\ call[c].at = "probing"
  /\ ProbeNext(c, call[c].todo, call[c].rank)
  /\ UNCHANGED <<catalog, activeLeases, cooldowns, policy, controlActions>>

\* release(feedback): idempotent; a retryable failure that says when to come
\* back starts a cooldown.
ReleaseEveryTime(c, coolDown) ==
  LET p == call[c].provider IN
  /\ call[c].at \in {"leased", "released"}
  /\ activeLeases' = [activeLeases EXCEPT ![p] = IF @ > 0 THEN @ - 1 ELSE 0]
  /\ call' = [call EXCEPT ![c].at = "released"]
  /\ UNCHANGED <<catalog, cooldowns, policy, controlActions>>
ReleaseBelowZero(c, coolDown) ==
  LET p == call[c].provider IN
  /\ call[c].at \in {"leased", "released"}
  /\ activeLeases' = [activeLeases EXCEPT ![p] = @ - 1]
  /\ call' = [call EXCEPT ![c].at = "released"]
  /\ UNCHANGED <<catalog, cooldowns, policy, controlActions>>
Release(c, coolDown) ==
  LET p == call[c].provider IN
  /\ call[c].at \in {"leased", "released"}
  /\ IF call[c].at = "released" THEN UNCHANGED <<activeLeases, cooldowns, call>>
     ELSE /\ activeLeases' = [activeLeases EXCEPT ![p] = IF @ > 0 THEN @ - 1 ELSE 0]
          /\ cooldowns' = IF coolDown THEN cooldowns \cup {p} ELSE cooldowns
          /\ call' = [call EXCEPT ![c].at = "released"]
  /\ UNCHANGED <<catalog, policy, controlActions>>

\* The clock passes `until`; activeCooldown then drops the entry.
CooldownElapses(p) ==
  /\ p \in cooldowns
  /\ cooldowns' = cooldowns \ {p}
  /\ UNCHANGED <<catalog, activeLeases, policy, call, controlActions>>

-----------------------------------------------------------------------------
(* The user's control actions (dashboard requests)                         *)

ControlAction == /\ controlActions < MaxControlActions
                 /\ controlActions' = controlActions + 1

\* registerProvider of a custom provider: a fresh adapter, connected.
RegisterProvider(p) ==
  /\ ControlAction
  /\ p \notin Builtin \cup registered
  /\ registered' = registered \cup {p}
  /\ connected' = connected \cup {p}
  /\ generation' = [generation EXCEPT ![p] = @ + 1]
  /\ UNCHANGED <<activeLeases, cooldowns, policy, call>>

\* replaceProvider: refused while a lease is active.
ReplaceProvider(p) ==
  /\ ControlAction
  /\ p \in registered \ Builtin
  /\ activeLeases[p] = 0
  /\ generation' = [generation EXCEPT ![p] = @ + 1]
  /\ cooldowns' = cooldowns \ {p}
  /\ UNCHANGED <<registered, connected, activeLeases, policy, call>>

\* policyStore.removeProvider: the provider leaves controls and routing.
RemoveFromPolicy(p) ==
  /\ mode' = [mode EXCEPT ![p] = "enabled"]
  /\ fallbackEnabled' = [fallbackEnabled EXCEPT ![p] = TRUE]
  /\ position' = [position EXCEPT ![p] = 0]
  /\ required' = IF required = p THEN NoProvider ELSE required

UnregisterProvider(p) ==
  /\ ControlAction
  /\ p \in registered \ Builtin
  /\ activeLeases[p] = 0
  /\ registered' = registered \ {p}
  /\ connected' = connected \ {p}
  /\ cooldowns' = cooldowns \ {p}
  /\ RemoveFromPolicy(p)
  /\ UNCHANGED <<generation, activeLeases, call>>

\* disconnectProvider: the adapter stays in `providers`, dormant.
DisconnectProviderBusy(p) ==
  /\ ControlAction
  /\ p \in Builtin
  /\ connected' = connected \ {p}
  /\ cooldowns' = cooldowns \ {p}
  /\ RemoveFromPolicy(p)
  /\ UNCHANGED <<registered, generation, activeLeases, call>>
DisconnectProvider(p) ==
  /\ ControlAction
  /\ p \in Builtin
  /\ activeLeases[p] = 0
  /\ connected' = connected \ {p}
  /\ cooldowns' = cooldowns \ {p}
  /\ RemoveFromPolicy(p)
  /\ UNCHANGED <<registered, generation, activeLeases, call>>

\* POST /api/providers/connect: connectProvider, then mode "enabled".
ConnectProvider(p) ==
  /\ ControlAction
  /\ p \in Builtin
  /\ connected' = connected \cup {p}
  /\ mode' = [mode EXCEPT ![p] = "enabled"]
  /\ UNCHANGED <<registered, generation, activeLeases, cooldowns,
                 fallbackEnabled, position, required, call>>

\* updateProviderControl: pausing also removes the provider from the routing.
UpdateProviderControl(p, m, fallback) ==
  /\ ControlAction
  /\ mode' = [mode EXCEPT ![p] = m]
  /\ fallbackEnabled' = [fallbackEnabled EXCEPT ![p] = fallback]
  /\ position' = IF m = "enabled" THEN position ELSE [position EXCEPT ![p] = 0]
  /\ required' = IF m # "enabled" /\ required = p THEN NoProvider ELSE required
  /\ UNCHANGED <<catalog, activeLeases, cooldowns, call>>

\* updateCapabilityRouting: `first` heads the configured order.
UpdateCapabilityRouting(first, newRequired) ==
  /\ ControlAction
  /\ position' = [p \in Providers |-> IF p = first THEN 1 ELSE 0]
  /\ required' = newRequired
  /\ UNCHANGED <<catalog, activeLeases, cooldowns, mode, fallbackEnabled, call>>

-----------------------------------------------------------------------------
\* createAgentRegistry: built-in providers the user connected earlier, and the
\* custom providers of the configuration, which count as connected.
Init ==
  /\ registered \in {Builtin \cup custom : custom \in SUBSET (Providers \ Builtin)}
  /\ generation = [p \in Providers |-> 0]
  /\ connected \in {(registered \ Builtin) \cup b : b \in SUBSET Builtin}
  /\ activeLeases = [p \in Providers |-> 0]
  /\ cooldowns = {}
  /\ mode = [p \in Providers |-> "enabled"]
  /\ fallbackEnabled = [p \in Providers |-> TRUE]
  /\ position = [p \in Providers |-> 0]
  /\ required = NoProvider
  /\ call = [c \in Callers |-> Idle]
  /\ controlActions = 0

Next ==
  \/ \E c \in Callers, excluded \in SUBSET Providers,
        preferred \in Providers \cup {NoProvider} : Acquire(c, excluded, preferred)
  \/ \E c \in Callers, p \in Providers : AcquireProvider(c, p)
  \/ \E c \in Callers : HealthReady(c)
  \/ \E c \in Callers : HealthNotReady(c)
  \/ \E c \in Callers, coolDown \in BOOLEAN : Release(c, coolDown)
  \/ \E p \in Providers : CooldownElapses(p)
  \/ \E p \in Providers : RegisterProvider(p)
  \/ \E p \in Providers : ReplaceProvider(p)
  \/ \E p \in Providers : UnregisterProvider(p)
  \/ \E p \in Providers : DisconnectProvider(p)
  \/ \E p \in Providers : ConnectProvider(p)
  \/ \E p \in Providers, m \in Modes, f \in BOOLEAN : UpdateProviderControl(p, m, f)
  \/ \E p \in Providers, r \in Providers \cup {NoProvider} : UpdateCapabilityRouting(p, r)

Spec == Init /\ [][Next]_vars

\* A health check has its own timeout, so every probe is answered.
Answers(c) == HealthReady(c) \/ HealthNotReady(c)
FairSpec == Spec /\ \A c \in Callers : WF_vars(Answers(c))

-----------------------------------------------------------------------------
(* Properties                                                              *)

\* Every variable holds a value of its kind.
TypeOK ==
  /\ registered \in SUBSET Providers
  /\ generation \in [Providers -> Nat]
  /\ connected \in SUBSET Providers
  /\ activeLeases \in [Providers -> Nat]
  /\ cooldowns \in SUBSET Providers
  /\ mode \in [Providers -> Modes]
  /\ fallbackEnabled \in [Providers -> BOOLEAN]
  /\ position \in [Providers -> {0, 1}]
  /\ required \in Providers \cup {NoProvider}
  /\ call \in [Callers -> Calls]
  /\ \A c \in Callers : call[c].at # "idle" => call[c].provider \in Providers
  /\ controlActions \in 0..MaxControlActions

\* The counter that refuses disconnects and new leases agrees with the leases
\* callers really hold, whatever was released twice or granted late.
LeaseAccounting ==
  \A p \in Providers : activeLeases[p] = Cardinality(Holders(p))

\* Two callers whose health checks overlap never share one provider beyond
\* its concurrency limit (the second look at the counter in `acquire`).
LimitRespected ==
  \A p \in Providers : Cardinality(Holders(p)) <= Limit[p]

\* The provider under a lease is still the adapter the lease was given.
Sound(c) == LET p == call[c].provider IN
  /\ p \in registered \cap connected
  /\ call[c].generation = generation[p]

\* No control action pulls a provider out from under active work: a lease that
\* names a connected, current adapter keeps naming one until it is released.
ActiveWorkIsPinned ==
  [][\A c \in Callers :
       call[c].at = "leased" /\ Sound(c) /\ call'[c] = call[c] => Sound(c)']_vars

\* docs/GOAL_RUNTIME.md:167 and docs/PROVIDERS.md:48: a disconnected provider is
\* never eligible, never chosen: no lease is on one.
DisconnectedNeverChosen ==
  \A c \in Callers : call[c].at = "leased" => call[c].provider \in connected

\* The loop of `acquire` ends: each caller gets a lease or null, whatever the
\* other callers and the user do to the registry while it waits.
AcquireIsAnswered ==
  \A c \in Callers : call[c].at = "probing" ~> call[c].at # "probing"

\* The registry implements a pool of counted slots (LeasePool).
Pool == INSTANCE LeasePool WITH holders <- [p \in Providers |-> Holders(p)]
ImplementsLeasePool == Pool!Spec
=============================================================================
