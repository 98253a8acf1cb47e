\* The deadline passes between the end of the drain and the cancellation.
SPECIFICATION FairSpec
CONSTANTS
  ProducerCount = 1
  ConsumerCount = 1
  Topologies = {"broadcast"}
  Latency = FALSE
  WarmupEvents = 0
  Events = 1
  RingSize = 1
  BatchSize = 1
  SampleEvery = 1
  MayTimeOut = TRUE
PROPERTIES
  RunOnceReturns
\* A repetition ends.
CHECK_DEADLOCK FALSE
