-------------------------- MODULE MCAgentRegistry --------------------------
(***************************************************************************)
(* Small instances of AgentRegistry: one built-in and one custom provider, *)
(* the shipped limit of one lease each, or two on the custom one.          *)
(***************************************************************************)
EXTENDS AgentRegistry, TLC

CONSTANTS codex, custom

MCProviders == {codex, custom}
MCBuiltin == {codex}
MCLimit == [p \in MCProviders |-> IF p = codex THEN 1 ELSE 2]
MCDefaultRank == [p \in MCProviders |-> IF p = codex THEN 1 ELSE 2]

=============================================================================
