SPECIFICATION FairSpec
CONSTANTS
  N = 3
  KindsUsed = {"read", "command", "shell", "edit"}
  Faults = {"abort", "fail", "stream"}
PROPERTIES ImplementsDiscipline DrainEnds
\* The turn ends.
CHECK_DEADLOCK FALSE
