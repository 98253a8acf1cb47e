\* A two-stage pipeline with everything an application may call.
SPECIFICATION Spec
CONSTANTS
  c1 = c1
  c2 = c2
  c3 = c3
  Consumers = {c1, c2}
  Upstream <- Pipeline
  Gating = {c2}
  BufferSize = 2
  MaxSequence = 3
  MaxBatchSize = 2
  Failing = {c1}
  ClaimSizes = {1, 2}
  Calls = {"TryNext", "ClaimAhead", "Discard", "DiscardAgain", "TranslatorError", "Close"}
INVARIANTS
  TypeOK
  SlotsExclusive
  AcknowledgedWasHandled
  EndOfBatchIsLastDelivered
PROPERTIES
  BroadcastSpec
\* The ring rests when nobody claims and everything is consumed.
CHECK_DEADLOCK FALSE
