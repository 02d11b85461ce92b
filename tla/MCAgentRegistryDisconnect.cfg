CONSTANTS
  codex = codex
  custom = custom
  NoProvider = NoProvider
  Providers <- MCProviders
  Builtin <- MCBuiltin
  Limit <- MCLimit
  DefaultRank <- MCDefaultRank
  Callers = {c1}
  MaxControlActions = 1
SPECIFICATION Spec
INVARIANTS DisconnectedNeverChosen
