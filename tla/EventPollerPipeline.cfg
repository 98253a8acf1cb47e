\* Two stages, either of which is polled, may fail and outlive the ring.
SPECIFICATION PollSpec
CONSTANTS
  c1 = c1
  c2 = c2
  Producers = {p1}
  Consumers = {c1, c2}
  Upstream <- Pipeline
  Gating = {c2}
  Pollers = {c1, c2}
  BufferSize = 2
  MaxSequence = 2
  MaxBatchSize = 2
  Failing = {c1, c2}
  ClaimSizes = {1, 2}
  Calls = {"Discard", "Close"}
  WordLaps = 2
INVARIANTS
  PollReportsTruth
  AcknowledgedWasHandled
  EndOfBatchIsLastDelivered
PROPERTIES
  BroadcastSpec
\* Nobody has to claim or to poll.
CHECK_DEADLOCK FALSE
