------------------------------ MODULE PermitPool ------------------------------
(***************************************************************************)
(* What a concurrency limiter promises to the code that calls it, with no  *)
(* queue and no counter: a set of callers that hold a permit, never more   *)
(* than Permits of them.  Semaphore implements it (SemaphoreProofs).       *)
(***************************************************************************)
EXTENDS Integers, FiniteSets

CONSTANTS Clients,   \* the acquire() calls
          Permits    \* how many may hold a permit at once

VARIABLE holders

Init == holders = {}

\* A call is granted a free permit.
Grant(c) ==
  /\ c \notin holders
  /\ Cardinality(holders) < Permits
  /\ holders' = holders \cup {c}

\* A holder gives its permit back.
Return(c) ==
  /\ c \in holders
  /\ holders' = holders \ {c}

\* A holder hands its permit to a call that waits for one.
HandOver(c, d) ==
  /\ c \in holders
  /\ d \notin holders
  /\ holders' = (holders \ {c}) \cup {d}

Next ==
  \/ \E c \in Clients : Grant(c) \/ Return(c)
  \/ \E c, d \in Clients : HandOver(c, d)

Spec == Init /\ [][Next]_holders
===============================================================================
