SPECIFICATION FairSpec
CONSTANTS
  N = 3
  Scripts <- MixedScripts
  Guarded = TRUE
  Permits = 2
  MaxTotalAgents = 1
  BudgetTotal = 2
  \* An agent that reports no usage is charged 0 (claudeCodeBackend.ts:362).
  Costs = {0, 2}
  Faults = {"kill", "crash", "skip", "throw", "io"}
  MaxStarts = 2
INVARIANTS PermitsConserved BudgetOverrunBounded NoSelfReplay AgentOverrunBounded
PROPERTIES NoAgentAfterKill RunEnds KilledRunEnds
\* A run that has ended and is not resumed stops.
CHECK_DEADLOCK FALSE
