------------------------- MODULE AgentRegistryProofs -------------------------
(***************************************************************************)
(* Theorems about AgentRegistry for any providers, callers and limits: the *)
(* lease counter is exact, the concurrency limit holds, no control action  *)
(* disturbs sound active work, and the registry implements LeasePool.      *)
(***************************************************************************)
EXTENDS AgentRegistry, FiniteSetTheorems, TLAPS

-----------------------------------------------------------------------------
(* Ranks and the candidate loop                                            *)

\* The ranking acquire walks by is a function to the naturals.
LEMMA RankType ==
  ASSUME TypeOK, NEW preferred \in Providers \cup {NoProvider}
  PROVE  PrioritizedRank(preferred) \in [Providers -> Nat]
<1>1. Cardinality(Providers) \in Nat
  BY RegistryAssumptions, FS_CardinalityType
<1>2. Rank \in [Providers -> Nat]
  BY <1>1, RegistryAssumptions DEF Rank, TypeOK
<1> QED
  BY <1>2 DEF PrioritizedRank

\* A resolved order only names providers.
LEMMA OrderType == TypeOK => ProviderOrder \in SUBSET Providers
  BY DEF ProviderOrder, ResolvedOrder, Enabled, TypeOK, IsEarliest

\* The idle call is a call.
LEMMA IdleType == Idle \in Calls /\ Idle.at = "idle"
  BY DEF Idle, Calls

\* One turn of the loop leaves a well-typed call that is not a lease.
LEMMA ProbeNextType ==
  ASSUME TypeOK, NEW c \in Callers, NEW todo \in SUBSET Providers,
         NEW rank \in [Providers -> Nat], ProbeNext(c, todo, rank)
  PROVE  \E r \in Calls :
            /\ call' = [call EXCEPT ![c] = r]
            /\ r.at \in {"idle", "probing"}
            /\ r.at # "idle" => r.provider \in Providers
<1> DEFINE open == {p \in todo : Probeable(p)}
<1>1. CASE call' = [call EXCEPT ![c] = Idle]
  BY <1>1, IdleType
<1>2. ASSUME NEW next \in Providers,
             call' = [call EXCEPT ![c] =
               [at |-> "probing", provider |-> next,
                generation |-> generation[next],
                todo |-> {p \in todo : rank[p] > rank[next]},
                rank |-> [p \in Providers |->
                   IF p \in {q \in todo : rank[q] > rank[next]} THEN rank[p] ELSE 0]]]
      PROVE  \E r \in Calls :
                /\ call' = [call EXCEPT ![c] = r]
                /\ r.at \in {"idle", "probing"}
                /\ r.at # "idle" => r.provider \in Providers
  <2> DEFINE left == {p \in todo : rank[p] > rank[next]}
             r == [at |-> "probing", provider |-> next,
                   generation |-> generation[next], todo |-> left,
                   rank |-> [p \in Providers |-> IF p \in left THEN rank[p] ELSE 0]]
  <2>1. generation[next] \in Nat
    BY DEF TypeOK
  <2>2. left \in SUBSET Providers
    OBVIOUS
  <2>3. [p \in Providers |-> IF p \in left THEN rank[p] ELSE 0] \in [Providers -> Nat]
    OBVIOUS
  <2>4. r \in Calls
    BY <2>1, <2>2, <2>3 DEF Calls
  <2>5. r.at = "probing" /\ r.provider = next
    OBVIOUS
  <2>6. call' = [call EXCEPT ![c] = r]
    BY <1>2
  <2> HIDE DEF r
  <2> QED
    BY <2>4, <2>5, <2>6
<1> QED
  BY <1>1, <1>2 DEF ProbeNext

-----------------------------------------------------------------------------
(* Type correctness                                                        *)

\* The registry starts well-typed.
LEMMA InitTypeOK == Init => TypeOK
  BY RegistryAssumptions, IdleType DEF Init, TypeOK, Modes, Idle

\* A step that only replaces one caller's call keeps the calls well-typed.
LEMMA CallUpdateType ==
  ASSUME TypeOK, NEW c \in Callers, NEW r \in Calls,
         r.at # "idle" => r.provider \in Providers,
         call' = [call EXCEPT ![c] = r]
  PROVE  /\ call' \in [Callers -> Calls]
         /\ \A d \in Callers : call'[d].at # "idle" => call'[d].provider \in Providers
  BY DEF TypeOK

\* Every step of the registry keeps it well-typed.
LEMMA NextTypeOK == TypeOK /\ [Next]_vars => TypeOK'
<1> SUFFICES ASSUME TypeOK, [Next]_vars PROVE TypeOK'
  OBVIOUS
<1> USE DEF TypeOK, catalog, policy
<1>1. ASSUME NEW c \in Callers, NEW excluded \in SUBSET Providers,
             NEW preferred \in Providers \cup {NoProvider},
             Acquire(c, excluded, preferred)
      PROVE TypeOK'
  <2>1. PICK r \in Calls : /\ call' = [call EXCEPT ![c] = r]
                           /\ r.at # "idle" => r.provider \in Providers
    BY <1>1, RankType, OrderType, ProbeNextType DEF Acquire
  <2> QED
    BY <1>1, <2>1, CallUpdateType DEF Acquire
<1>2. ASSUME NEW c \in Callers, NEW p \in Providers, AcquireProvider(c, p)
      PROVE TypeOK'
  BY <1>2 DEF AcquireProvider, Idle, Calls
<1>3. ASSUME NEW c \in Callers, HealthReady(c) PROVE TypeOK'
  <2> DEFINE p == call[c].provider
  <2>1. /\ p \in Providers /\ call[c].todo \in SUBSET Providers
        /\ call[c].rank \in [Providers -> Nat] /\ call[c].generation \in Nat
    BY <1>3 DEF HealthReady, Calls
  <2>2. CASE activeLeases[p] < Limit[p]
    <3> DEFINE r == [Idle EXCEPT !.at = "leased", !.provider = p,
                                 !.generation = call[c].generation]
    <3>1. r \in Calls /\ r.provider = p
      BY <2>1 DEF Idle, Calls
    <3>2. /\ call' = [call EXCEPT ![c] = r]
          /\ activeLeases' = [activeLeases EXCEPT ![p] = @ + 1]
      BY <1>3, <2>2 DEF HealthReady
    <3> HIDE DEF r
    <3>3. /\ call' \in [Callers -> Calls]
          /\ \A d \in Callers : call'[d].at # "idle" => call'[d].provider \in Providers
      BY <2>1, <3>1, <3>2, CallUpdateType
    <3>4. activeLeases' \in [Providers -> Nat]
      BY <2>1, <3>2
    <3> QED
      BY <1>3, <3>3, <3>4 DEF HealthReady
  <2>3. CASE ~(activeLeases[p] < Limit[p])
    <3>1. ProbeNext(c, call[c].todo, call[c].rank)
      BY <1>3, <2>3 DEF HealthReady
    <3>2. PICK r \in Calls : /\ call' = [call EXCEPT ![c] = r]
                             /\ r.at # "idle" => r.provider \in Providers
      BY <2>1, <3>1, ProbeNextType
    <3> QED
      BY <1>3, <2>3, <3>2, CallUpdateType DEF HealthReady
  <2> QED BY <2>2, <2>3
<1>4. ASSUME NEW c \in Callers, HealthNotReady(c) PROVE TypeOK'
  <2>1. call[c].todo \in SUBSET Providers /\ call[c].rank \in [Providers -> Nat]
    BY DEF Calls
  <2>2. PICK r \in Calls : /\ call' = [call EXCEPT ![c] = r]
                           /\ r.at # "idle" => r.provider \in Providers
    BY <1>4, <2>1, ProbeNextType DEF HealthNotReady
  <2> QED
    BY <1>4, <2>2, CallUpdateType DEF HealthNotReady
<1>5. ASSUME NEW c \in Callers, NEW coolDown \in BOOLEAN, Release(c, coolDown)
      PROVE TypeOK'
  <2>1. CASE call[c].at = "released"
    BY <1>5, <2>1 DEF Release
  <2>2. CASE call[c].at = "leased"
    <3>1. call[c].provider \in Providers /\ [call[c] EXCEPT !.at = "released"] \in Calls
      BY <2>2 DEF Calls
    <3>2. call' = [call EXCEPT ![c] = [call[c] EXCEPT !.at = "released"]]
      BY <1>5, <2>2 DEF Release
    <3>3. [call[c] EXCEPT !.at = "released"].provider = call[c].provider
      BY DEF Calls
    <3> QED
      BY <1>5, <2>2, <3>1, <3>2, <3>3, CallUpdateType DEF Release
  <2> QED BY <1>5, <2>1, <2>2 DEF Release
<1>6. ASSUME NEW p \in Providers, CooldownElapses(p) PROVE TypeOK'
  BY <1>6 DEF CooldownElapses
<1>7. ASSUME NEW p \in Providers, RegisterProvider(p) PROVE TypeOK'
  BY <1>7, RegistryAssumptions DEF RegisterProvider, ControlAction
<1>8. ASSUME NEW p \in Providers, ReplaceProvider(p) PROVE TypeOK'
  BY <1>8, RegistryAssumptions DEF ReplaceProvider, ControlAction
<1>9. ASSUME NEW p \in Providers, UnregisterProvider(p) PROVE TypeOK'
  BY <1>9, RegistryAssumptions
     DEF UnregisterProvider, ControlAction, RemoveFromPolicy, Modes
<1>10. ASSUME NEW p \in Providers, DisconnectProvider(p) PROVE TypeOK'
  BY <1>10, RegistryAssumptions
     DEF DisconnectProvider, ControlAction, RemoveFromPolicy, Modes
<1>11. ASSUME NEW p \in Providers, ConnectProvider(p) PROVE TypeOK'
  BY <1>11, RegistryAssumptions DEF ConnectProvider, ControlAction, Modes
<1>12. ASSUME NEW p \in Providers, NEW m \in Modes, NEW f \in BOOLEAN,
              UpdateProviderControl(p, m, f)
       PROVE TypeOK'
  BY <1>12, RegistryAssumptions DEF UpdateProviderControl, ControlAction
<1>13. ASSUME NEW p \in Providers, NEW r \in Providers \cup {NoProvider},
              UpdateCapabilityRouting(p, r)
       PROVE TypeOK'
  BY <1>13, RegistryAssumptions DEF UpdateCapabilityRouting, ControlAction
<1>14. CASE UNCHANGED vars
  BY <1>14 DEF vars
<1> QED
  BY <1>1, <1>2, <1>3, <1>4, <1>5, <1>6, <1>7, <1>8, <1>9, <1>10, <1>11,
     <1>12, <1>13, <1>14 DEF Next

\* The registry is well-typed in every reachable state.
THEOREM TypeCorrect == Spec => []TypeOK
<1> QED BY InitTypeOK, NextTypeOK, PTL DEF Spec

-----------------------------------------------------------------------------
(* How a step may move leases: one is granted, one is returned, or none    *)

Granted(c, p) ==
  /\ activeLeases[p] < Limit[p]
  /\ activeLeases' = [activeLeases EXCEPT ![p] = @ + 1]
  /\ \A q \in Providers : c \notin Holders(q)
  /\ \A q \in Providers :
       Holders(q)' = IF q = p THEN Holders(q) \cup {c} ELSE Holders(q)

Returned(c, p) ==
  /\ c \in Holders(p)
  /\ activeLeases' = [activeLeases EXCEPT ![p] = IF @ > 0 THEN @ - 1 ELSE 0]
  /\ \A q \in Providers :
       Holders(q)' = IF q = p THEN Holders(q) \ {c} ELSE Holders(q)

Unmoved == /\ activeLeases' = activeLeases
           /\ \A q \in Providers : Holders(q)' = Holders(q)

\* Replacing a call that is not a lease by another that is not moves no lease.
LEMMA NoLeaseMoves ==
  ASSUME TypeOK, NEW c \in Callers, NEW r \in Calls,
         call[c].at # "leased", r.at # "leased",
         call' = [call EXCEPT ![c] = r]
  PROVE  \A q \in Providers : Holders(q)' = Holders(q)
  BY DEF TypeOK, Holders, Holds

\* Every step of the registry moves at most one lease.
LEMMA StepKind ==
  TypeOK /\ [Next]_vars =>
    \/ \E c \in Callers, p \in Providers : Granted(c, p) \/ Returned(c, p)
    \/ Unmoved
<1> SUFFICES ASSUME TypeOK, [Next]_vars
             PROVE  \/ \E c \in Callers, p \in Providers : Granted(c, p) \/ Returned(c, p)
                    \/ Unmoved
  OBVIOUS
<1>1. ASSUME NEW c \in Callers, NEW excluded \in SUBSET Providers,
             NEW preferred \in Providers \cup {NoProvider},
             Acquire(c, excluded, preferred)
      PROVE Unmoved
  <2>1. PICK r \in Calls : /\ call' = [call EXCEPT ![c] = r]
                           /\ r.at \in {"idle", "probing"}
    BY <1>1, RankType, OrderType, ProbeNextType DEF Acquire
  <2> QED
    BY <1>1, <2>1, NoLeaseMoves DEF Acquire, Unmoved
<1>2. ASSUME NEW c \in Callers, NEW p \in Providers, AcquireProvider(c, p)
      PROVE Unmoved
  <2>1. generation[p] \in Nat
    BY DEF TypeOK
  <2> DEFINE r == [Idle EXCEPT !.at = "probing", !.provider = p,
                               !.generation = generation[p]]
  <2>2. r \in Calls /\ r.at = "probing"
    BY <2>1 DEF Idle, Calls
  <2>3. call' = [call EXCEPT ![c] = r] /\ call[c].at # "leased"
        /\ activeLeases' = activeLeases
    BY <1>2 DEF AcquireProvider
  <2> HIDE DEF r
  <2> QED
    BY <2>2, <2>3, NoLeaseMoves DEF Unmoved
<1>3. ASSUME NEW c \in Callers, HealthReady(c)
      PROVE Granted(c, call[c].provider) \/ Unmoved
  <2> DEFINE p == call[c].provider
  <2>1. /\ p \in Providers /\ call[c].todo \in SUBSET Providers
        /\ call[c].rank \in [Providers -> Nat] /\ call[c].generation \in Nat
        /\ call[c].at = "probing"
    BY <1>3 DEF HealthReady, Calls, TypeOK
  <2>2. CASE activeLeases[p] < Limit[p]
    <3> DEFINE r == [Idle EXCEPT !.at = "leased", !.provider = p,
                                 !.generation = call[c].generation]
    <3>1. r.at = "leased" /\ r.provider = p
      BY DEF Idle
    <3>2. /\ call' = [call EXCEPT ![c] = r]
          /\ activeLeases' = [activeLeases EXCEPT ![p] = @ + 1]
      BY <1>3, <2>2 DEF HealthReady
    <3> HIDE DEF r
    <3>3. \A q \in Providers :
            /\ c \notin Holders(q)
            /\ Holders(q)' = IF q = p THEN Holders(q) \cup {c} ELSE Holders(q)
      BY <2>1, <3>1, <3>2 DEF Holders, Holds, TypeOK
    <3> QED
      BY <2>2, <3>2, <3>3 DEF Granted
  <2>3. CASE ~(activeLeases[p] < Limit[p])
    <3>1. ProbeNext(c, call[c].todo, call[c].rank) /\ activeLeases' = activeLeases
      BY <1>3, <2>3 DEF HealthReady
    <3>2. PICK r \in Calls : /\ call' = [call EXCEPT ![c] = r]
                             /\ r.at \in {"idle", "probing"}
      BY <2>1, <3>1, ProbeNextType
    <3> QED
      BY <2>1, <3>1, <3>2, NoLeaseMoves DEF Unmoved
  <2> QED BY <2>2, <2>3
<1>4. ASSUME NEW c \in Callers, HealthNotReady(c) PROVE Unmoved
  <2>1. /\ call[c].todo \in SUBSET Providers /\ call[c].rank \in [Providers -> Nat]
        /\ call[c].at = "probing" /\ activeLeases' = activeLeases
    BY <1>4 DEF Calls, TypeOK, HealthNotReady
  <2>2. PICK r \in Calls : /\ call' = [call EXCEPT ![c] = r]
                           /\ r.at \in {"idle", "probing"}
    BY <1>4, <2>1, ProbeNextType DEF HealthNotReady
  <2> QED
    BY <2>1, <2>2, NoLeaseMoves DEF Unmoved
<1>5. ASSUME NEW c \in Callers, NEW coolDown \in BOOLEAN, Release(c, coolDown)
      PROVE Returned(c, call[c].provider) \/ Unmoved
  <2>1. CASE call[c].at = "released"
    BY <1>5, <2>1 DEF Release, Unmoved, Holders, Holds
  <2>2. CASE call[c].at = "leased"
    <3> DEFINE p == call[c].provider
    <3>1. /\ call' = [call EXCEPT ![c] = [call[c] EXCEPT !.at = "released"]]
          /\ activeLeases' = [activeLeases EXCEPT ![p] = IF @ > 0 THEN @ - 1 ELSE 0]
      BY <1>5, <2>2 DEF Release
    <3>2. [call[c] EXCEPT !.at = "released"].at = "released"
      BY DEF TypeOK, Calls
    <3>3. \A q \in Providers :
            Holders(q)' = IF q = p THEN Holders(q) \ {c} ELSE Holders(q)
      BY <2>2, <3>1, <3>2 DEF Holders, Holds, TypeOK
    <3>4. c \in Holders(p)
      BY <2>2 DEF Holders, Holds
    <3> QED
      BY <3>1, <3>3, <3>4 DEF Returned
  <2> QED BY <1>5, <2>1, <2>2 DEF Release
<1>6. ASSUME NEW c \in Callers,
             Granted(c, call[c].provider) \/ Returned(c, call[c].provider),
             HealthReady(c) \/ \E coolDown \in BOOLEAN : Release(c, coolDown)
      PROVE  \E p \in Providers : Granted(c, p) \/ Returned(c, p)
  <2>1. call[c].provider \in Providers
    BY <1>6 DEF TypeOK, HealthReady, Release
  <2> QED BY <1>6, <2>1
<1>7. ASSUME NEW p \in Providers,
             \/ CooldownElapses(p) \/ RegisterProvider(p) \/ ReplaceProvider(p)
             \/ UnregisterProvider(p) \/ DisconnectProvider(p) \/ ConnectProvider(p)
             \/ \E m \in Modes, f \in BOOLEAN : UpdateProviderControl(p, m, f)
             \/ \E r \in Providers \cup {NoProvider} : UpdateCapabilityRouting(p, r)
      PROVE Unmoved
  <2>1. activeLeases' = activeLeases /\ call' = call
    BY <1>7 DEF CooldownElapses, RegisterProvider, ReplaceProvider, UnregisterProvider,
         DisconnectProvider, ConnectProvider, UpdateProviderControl,
         UpdateCapabilityRouting
  <2> QED
    BY <2>1 DEF Unmoved, Holders, Holds
<1>8. CASE UNCHANGED vars
  BY <1>8 DEF vars, Unmoved, Holders, Holds
<1> QED
  BY <1>1, <1>2, <1>3, <1>4, <1>5, <1>6, <1>7, <1>8 DEF Next

-----------------------------------------------------------------------------
(* The lease counter and the concurrency limit                             *)

\* Inductive: the counter is exact and within the limit.
LeaseInv == /\ TypeOK
            /\ LeaseAccounting
            /\ \A p \in Providers : activeLeases[p] <= Limit[p]

\* The callers that hold a lease on a provider are finitely many.
LEMMA HoldersFinite ==
  \A p \in Providers : IsFiniteSet(Holders(p)) /\ Cardinality(Holders(p)) \in Nat
<1> SUFFICES ASSUME NEW p \in Providers
             PROVE  IsFiniteSet(Holders(p)) /\ Cardinality(Holders(p)) \in Nat
  OBVIOUS
<1>1. Holders(p) \in SUBSET Callers
  BY DEF Holders
<1>2. IsFiniteSet(Holders(p))
  BY <1>1, RegistryAssumptions, FS_Subset
<1> QED
  BY <1>2, FS_CardinalityType

\* Nobody holds a lease at start, and the counters are 0.
LEMMA InitLeaseInv == Init => LeaseInv
<1> SUFFICES ASSUME Init PROVE LeaseInv
  OBVIOUS
<1>1. \A p \in Providers : Holders(p) = {}
  BY IdleType DEF Init, Holders, Holds
<1>2. \A p \in Providers : activeLeases[p] = Cardinality(Holders(p))
  BY <1>1, FS_EmptySet DEF Init
<1>3. \A p \in Providers : activeLeases[p] <= Limit[p]
  BY RegistryAssumptions DEF Init
<1> QED
  BY <1>2, <1>3, InitTypeOK DEF LeaseInv, LeaseAccounting

\* A grant adds one holder and one to the counter, a return removes both.
LEMMA NextLeaseInv == LeaseInv /\ [Next]_vars => LeaseInv'
<1> SUFFICES ASSUME LeaseInv, [Next]_vars PROVE LeaseInv'
  OBVIOUS
<1>1. TypeOK /\ TypeOK'
  BY NextTypeOK DEF LeaseInv
<1>2. /\ activeLeases \in [Providers -> Nat]
      /\ \A p \in Providers : activeLeases[p] = Cardinality(Holders(p))
      /\ \A p \in Providers : activeLeases[p] <= Limit[p]
      /\ \A p \in Providers : Limit[p] \in Nat
  BY RegistryAssumptions DEF LeaseInv, LeaseAccounting, TypeOK
<1>3. ASSUME NEW c \in Callers, NEW p \in Providers, Granted(c, p),
             NEW q \in Providers
      PROVE  /\ activeLeases'[q] = Cardinality(Holders(q)')
             /\ activeLeases'[q] <= Limit[q]
  <2>1. CASE q = p
    <3>1. Cardinality(Holders(p) \cup {c}) = Cardinality(Holders(p)) + 1
      BY <1>3, HoldersFinite, FS_AddElement DEF Granted
    <3>2. activeLeases'[p] = activeLeases[p] + 1 /\ Holders(p)' = Holders(p) \cup {c}
      BY <1>2, <1>3 DEF Granted
    <3>3. activeLeases[p] < Limit[p]
      BY <1>3 DEF Granted
    <3> QED
      BY <1>2, <2>1, <3>1, <3>2, <3>3
  <2>2. CASE q # p
    BY <1>2, <1>3, <2>2 DEF Granted
  <2> QED BY <2>1, <2>2
<1>4. ASSUME NEW c \in Callers, NEW p \in Providers, Returned(c, p),
             NEW q \in Providers
      PROVE  /\ activeLeases'[q] = Cardinality(Holders(q)')
             /\ activeLeases'[q] <= Limit[q]
  <2>1. CASE q = p
    <3>1. Cardinality(Holders(p) \ {c}) = Cardinality(Holders(p)) - 1
      BY <1>4, HoldersFinite, FS_RemoveElement DEF Returned
    <3>2. Holders(p) # {}
      BY <1>4 DEF Returned
    <3>3. activeLeases[p] > 0
      BY <1>2, <3>2, HoldersFinite, FS_EmptySet
    <3>4. activeLeases'[p] = activeLeases[p] - 1 /\ Holders(p)' = Holders(p) \ {c}
      BY <1>2, <1>4, <3>3 DEF Returned
    <3> QED
      BY <1>2, <2>1, <3>1, <3>3, <3>4
  <2>2. CASE q # p
    BY <1>2, <1>4, <2>2 DEF Returned
  <2> QED BY <2>1, <2>2
<1>5. ASSUME Unmoved, NEW q \in Providers
      PROVE  /\ activeLeases'[q] = Cardinality(Holders(q)')
             /\ activeLeases'[q] <= Limit[q]
  BY <1>2, <1>5 DEF Unmoved
<1>6. \A q \in Providers : /\ activeLeases'[q] = Cardinality(Holders(q)')
                           /\ activeLeases'[q] <= Limit[q]
  BY <1>1, <1>3, <1>4, <1>5, StepKind
<1> QED
  BY <1>1, <1>6 DEF LeaseInv, LeaseAccounting

\* The lease counter agrees with the leases held, for any number of callers.
THEOREM LeaseAccountingHolds == Spec => []LeaseAccounting
<1>1. LeaseInv => LeaseAccounting
  BY DEF LeaseInv
<1> QED BY <1>1, InitLeaseInv, NextLeaseInv, PTL DEF Spec

\* Overlapping health checks never push a provider over its limit.
THEOREM LimitRespectedHolds == Spec => []LimitRespected
<1>1. LeaseInv => LimitRespected
  BY DEF LeaseInv, LeaseAccounting, LimitRespected
<1> QED BY <1>1, InitLeaseInv, NextLeaseInv, PTL DEF Spec

-----------------------------------------------------------------------------
(* Control actions and active work                                         *)

\* A provider somebody holds a lease on has a counter above 0.
LEMMA HeldMeansActive ==
  ASSUME LeaseInv, NEW c \in Callers, call[c].at = "leased"
  PROVE  /\ call[c].provider \in Providers
         /\ activeLeases[call[c].provider] # 0
<1> DEFINE p == call[c].provider
<1>1. p \in Providers
  BY DEF LeaseInv, TypeOK
<1>2. c \in Holders(p)
  BY DEF Holders, Holds
<1>3. activeLeases[p] = Cardinality(Holders(p))
  BY <1>1 DEF LeaseInv, LeaseAccounting
<1> QED
  BY <1>1, <1>2, <1>3, HoldersFinite, FS_EmptySet

\* One step keeps every sound lease sound: the handlers that replace, remove or
\* disconnect an adapter read the counter first, and the counter is exact.
LEMMA PinnedStep ==
  ASSUME LeaseInv, [Next]_vars, NEW c \in Callers,
         call[c].at = "leased", Sound(c), call'[c] = call[c]
  PROVE  Sound(c)'
<1> DEFINE p == call[c].provider
<1>1. p \in Providers /\ activeLeases[p] # 0 /\ TypeOK
  BY HeldMeansActive DEF LeaseInv
<1>2. p \in registered \cap connected /\ call[c].generation = generation[p]
  BY DEF Sound
<1>3. p \in registered' \cap connected' /\ generation'[p] = generation[p]
  <2>1. CASE UNCHANGED <<registered, generation, connected>>
    BY <1>2, <2>1
  <2>2. ASSUME NEW q \in Providers,
               \/ RegisterProvider(q) \/ ReplaceProvider(q) \/ UnregisterProvider(q)
               \/ DisconnectProvider(q) \/ ConnectProvider(q)
        PROVE  p \in registered' \cap connected' /\ generation'[p] = generation[p]
    BY <1>1, <1>2, <2>2 DEF RegisterProvider, ReplaceProvider, UnregisterProvider,
       DisconnectProvider, ConnectProvider, TypeOK
  <2> QED
    BY <2>1, <2>2 DEF Next, vars, catalog, Acquire, AcquireProvider, HealthReady,
       HealthNotReady, Release, CooldownElapses, UpdateProviderControl,
       UpdateCapabilityRouting
<1> QED
  BY <1>2, <1>3 DEF Sound

\* No control action pulls a provider out from under active work.
THEOREM ActiveWorkIsPinnedHolds == Spec => ActiveWorkIsPinned
<1>1. LeaseInv /\ [Next]_vars =>
        [\A c \in Callers :
           call[c].at = "leased" /\ Sound(c) /\ call'[c] = call[c] => Sound(c)']_vars
  BY PinnedStep
<1> QED BY <1>1, InitLeaseInv, NextLeaseInv, PTL DEF Spec, ActiveWorkIsPinned

-----------------------------------------------------------------------------
(* The registry implements LeasePool                                       *)

\* The holders a registry state maps to.
Mapped == [p \in Providers |-> Holders(p)]

\* The pool counts with the same Cardinality.
LEMMA SameCardinality == \A S : Pool!Cardinality(S) = Cardinality(S)
  BY DEF Pool!Cardinality, Cardinality

\* The registry starts as an empty pool.
LEMMA InitRefines == Init => Pool!Init
<1> SUFFICES ASSUME Init PROVE Mapped = [p \in Providers |-> {}]
  BY DEF Mapped, Pool!Init
<1> QED
  BY IdleType DEF Init, Holders, Holds, Mapped

\* A grant of the registry grants a slot, a return returns one, and every
\* other step leaves the pool as it is.
LEMMA StepRefines == LeaseInv /\ [Next]_vars => [Pool!Next]_Mapped
<1> SUFFICES ASSUME LeaseInv, [Next]_vars PROVE Pool!Next \/ Mapped' = Mapped
  OBVIOUS
<1>1. ASSUME NEW c \in Callers, NEW p \in Providers, Granted(c, p)
      PROVE  Pool!Grant(c, p)
  <2>1. \A q \in Providers : c \notin Mapped[q]
    BY <1>1 DEF Granted, Mapped
  <2>2. Cardinality(Mapped[p]) < Limit[p]
    BY <1>1 DEF LeaseInv, LeaseAccounting, Granted, Mapped
  <2>3. Mapped' = [Mapped EXCEPT ![p] = @ \cup {c}]
    BY <1>1 DEF Granted, Mapped
  <2> QED
    BY <2>1, <2>2, <2>3, SameCardinality DEF Pool!Grant, Mapped
<1>2. ASSUME NEW c \in Callers, NEW p \in Providers, Returned(c, p)
      PROVE  Pool!Return(c, p)
  <2>1. c \in Mapped[p]
    BY <1>2 DEF Returned, Mapped
  <2>2. Mapped' = [Mapped EXCEPT ![p] = @ \ {c}]
    BY <1>2 DEF Returned, Mapped
  <2> QED
    BY <2>1, <2>2 DEF Pool!Return, Mapped
<1>3. Unmoved => Mapped' = Mapped
  BY DEF Unmoved, Mapped
<1>4. TypeOK
  BY DEF LeaseInv
<1> QED
  BY <1>1, <1>2, <1>3, <1>4, StepKind DEF Pool!Next

\* The lease protocol, health checks and control actions included, is a pool of
\* counted slots.
THEOREM RegistryImplementsLeasePool == Spec => ImplementsLeasePool
<1> QED
  BY InitRefines, InitLeaseInv, NextLeaseInv, StepRefines, PTL
  DEF Spec, ImplementsLeasePool, Pool!Spec, Mapped
=============================================================================
