\* The ring closes while a claimed sequence is unresolved.
SPECIFICATION FairSpec
CONSTANTS
  Runners = {r1}
  Halters = {h1}
  MaxSequence = 0
  MaxBatchSize = 1
  Strategy = "polling"
  HasUpstream = FALSE
  Calls = {"Close"}
PROPERTIES
  CloseEndsRun
\* Everything may rest: nobody has to claim, run or halt.
CHECK_DEADLOCK FALSE
