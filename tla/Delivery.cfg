\* Refusals, database errors, lost responses and crashes, and jobs that are also
\* given to a second worker while the first is still at it.
SPECIFICATION FairSpec
CONSTANTS
  Msgs = {r1, q1}
  Queued = {q1}
  Workers = {w1, w2}
  NoWorker = NoWorker
  MaxFaults = 2
  MaxOverlaps = 2
INVARIANTS
  SentWasAccepted
  DuplicatesNeedFaults
PROPERTIES
  DeliveryPromise
  PendingIsSettled
CHECK_DEADLOCK FALSE
