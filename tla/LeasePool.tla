----------------------------- MODULE LeasePool -----------------------------
(***************************************************************************)
(* What the provider control plane promises about leases: each provider is *)
(* a pool of Limit slots, a caller holds at most one slot at a time, and   *)
(* only its holder gives a slot back.  AgentRegistry implements it.        *)
(***************************************************************************)
EXTENDS Naturals, FiniteSets

CONSTANTS Providers, Callers, Limit

VARIABLE holders    \* the callers that hold a lease on each provider

Init == holders = [p \in Providers |-> {}]

Grant(c, p) ==
  /\ \A q \in Providers : c \notin holders[q]
  /\ Cardinality(holders[p]) < Limit[p]
  /\ holders' = [holders EXCEPT ![p] = @ \cup {c}]

Return(c, p) ==
  /\ c \in holders[p]
  /\ holders' = [holders EXCEPT ![p] = @ \ {c}]

Next == \E c \in Callers, p \in Providers : Grant(c, p) \/ Return(c, p)

Spec == Init /\ [][Next]_holders
=============================================================================
