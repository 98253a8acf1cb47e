\* A resolved sequence is published again.
SPECIFICATION Spec
CONSTANTS
  c1 = c1
  c2 = c2
  c3 = c3
  Consumers = {c1}
  Upstream <- Parallel
  Gating = {c1}
  BufferSize = 2
  MaxSequence = 2
  MaxBatchSize = 2
  Failing = {}
  ClaimSizes = {1}
  Calls = {"PublishAgain"}
INVARIANTS
  DuplicatesIgnored
\* The ring rests when nobody claims and everything is consumed.
CHECK_DEADLOCK FALSE
