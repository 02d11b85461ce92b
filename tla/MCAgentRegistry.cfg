SPECIFICATION FairSpec
CONSTANTS
  codex = codex
  custom = custom
  NoProvider = NoProvider
  Providers <- MCProviders
  Builtin <- MCBuiltin
  Limit <- MCLimit
  DefaultRank <- MCDefaultRank
  Callers = {c1, c2}
  MaxControlActions = 2
INVARIANTS TypeOK LeaseAccounting LimitRespected
PROPERTIES ActiveWorkIsPinned ImplementsLeasePool AcquireIsAnswered
