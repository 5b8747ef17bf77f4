SPECIFICATION FairSpec
CONSTANTS
  Clients = {c1, c2, c3, c4}
  Permits = 2
INVARIANTS QueueExact PermitsConserved NoIdlePermit
PROPERTIES NoOvertaking WaiterServed ImplementsPool
\* The callers may all be done.
CHECK_DEADLOCK FALSE
