SPECIFICATION FairSpec
CONSTANTS
  N = 3
  KindsUsed = {"read", "command", "edit", "unknown"}
  Cap = 2
INVARIANTS CapRespected ContextInOrder
PROPERTIES ImplementsDiscipline BatchesEnd
\* The turn ends.
CHECK_DEADLOCK FALSE
