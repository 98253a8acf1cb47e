\* Two publishers and two consumers in either topology; the deadline may pass at any moment.
SPECIFICATION FairSpec
CONSTANTS
  ProducerCount = 2
  ConsumerCount = 2
  Topologies = {"broadcast", "pipeline"}
  Latency = TRUE
  WarmupEvents = 2
  Events = 3
  RingSize = 2
  BatchSize = 2
  SampleEvery = 2
  MayTimeOut = TRUE
INVARIANTS
  TalliesUnshared
  ReportExact
  EverythingJoined
PROPERTIES
  PhaseEnds
  ReportsInTheEnd
\* A repetition ends.
CHECK_DEADLOCK FALSE
