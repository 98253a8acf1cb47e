\* The smallest ring with all a producer may call.
SPECIFICATION Spec
CONSTANTS
  Producers = {p1, p2}
  Consumers = {c1}
  Upstream <- Parallel
  Gating = {c1}
  BufferSize = 1
  MaxSequence = 2
  MaxBatchSize = 2
  Failing = {}
  ClaimSizes = {1}
  Calls = {"TryNext", "Discard", "ResolveAgain", "TranslatorError", "Close"}
  WordLaps = 4
SYMMETRY ProducerSymmetry
INVARIANTS
  ReadsOwnEvent
  AcknowledgedWasHandled
PROPERTIES
  BroadcastSpec
\* The ring rests when nobody claims and everything is consumed.
CHECK_DEADLOCK FALSE
