SPECIFICATION Spec
CONSTANTS
  N = 1
  Scripts <- SequentialScript
  Guarded = FALSE
  Permits = 1
  MaxTotalAgents = 9
  BudgetTotal = 5
  Costs = {1, 2}
  Faults = {"kill", "crash", "throw", "dead", "io"}
  MaxStarts = 3
PROPERTIES CompletedCallsReplay DurableCallsNotRerun
\* A run that has ended and is not resumed stops.
CHECK_DEADLOCK FALSE
