SPECIFICATION NestingSpec
CONSTANTS
  Callers = {c1, c2, c3}
  MaxCalls = 3
SYMMETRY Symmetry
INVARIANTS SerialNesting
\* The script ends when its calls are used up.
CHECK_DEADLOCK FALSE
