\* Two parallel stages join before a third; the producer is gated by one of them and by the join, and may claim ahead.
SPECIFICATION FairSpec
CONSTANTS
  c1 = c1
  c2 = c2
  c3 = c3
  Consumers = {c1, c2, c3}
  Upstream <- Diamond
  Gating = {c1, c3}
  BufferSize = 2
  MaxSequence = 4
  MaxBatchSize = 2
  Failing = {}
  ClaimSizes = {1, 2}
  Calls = {"ClaimAhead"}
INVARIANTS
  GatesProtected
PROPERTIES
  BroadcastSpec
  EventuallyAcknowledged
\* The ring rests when nobody claims and everything is consumed.
CHECK_DEADLOCK FALSE
