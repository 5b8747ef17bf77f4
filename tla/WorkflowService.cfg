SPECIFICATION Spec
CONSTANTS
  Execs = {e1, e2, e3}
  OldRuns = {old}
  None = None
SYMMETRY Symmetry
INVARIANTS NoBindingLeak Killable NoZombieTask NotifiedUnlessDoubled
PROPERTIES OwnResultOnly TerminalUnlessStopped
\* Every execution may be over.
CHECK_DEADLOCK FALSE
