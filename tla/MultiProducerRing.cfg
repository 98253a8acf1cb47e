\* Two producers race through two laps of a two-slot ring.
SPECIFICATION FairSpec
CONSTANTS
  Producers = {p1, p2}
  Consumers = {c1}
  Upstream <- Parallel
  Gating = {c1}
  BufferSize = 2
  MaxSequence = 3
  MaxBatchSize = 2
  Failing = {}
  ClaimSizes = {1, 2}
  Calls = {}
  WordLaps = 2
INVARIANTS
  TypeOK
  GatesProtected
  SlotsExclusive
PROPERTIES
  BroadcastSpec
  EventuallyAcknowledged
  ClaimReturns
\* The ring rests when nobody claims and everything is consumed.
CHECK_DEADLOCK FALSE
