SPECIFICATION DiskSpec
CONSTANTS
  RunIds = {r1, r2, r3}
  NoRun = NoRun
  KeepMax = 1
  MaxJobs = 2
  MaxCrashes = 1
SYMMETRY Symmetry
INVARIANTS SweepBound SerialKept
\* The process may have no more runs.
CHECK_DEADLOCK FALSE
