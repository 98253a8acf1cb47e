\* Two goroutines run one processor and one halts it, with the blocking strategy, behind an upstream consumer.
SPECIFICATION FairSpec
CONSTANTS
  Runners = {r1, r2}
  Halters = {h1}
  MaxSequence = 1
  MaxBatchSize = 2
  Strategy = "blocking"
  HasUpstream = TRUE
  Calls = {"Cancel", "Close", "Fail"}
INVARIANTS
  TypeOK
  OneRunAtATime
  NoLostWakeup
PROPERTIES
  BroadcastSpec
  HaltStopsRun
  CancelEndsRun
  CloseEndsDrainedRun
\* Everything may rest: nobody has to claim, run or halt.
CHECK_DEADLOCK FALSE
