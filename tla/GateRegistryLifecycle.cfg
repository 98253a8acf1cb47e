\* Two administrators register, also twice, and remove gates at runtime, shut the ring down and close it.
SPECIFICATION FairSpec
CONSTANTS
  Producers = {p1}
  Gates = {g1}
  Admins = {a1, a2}
  BufferSize = 1
  MaxSequence = 1
  MaxCopies = 2
  Calls = {"Add", "Remove", "Close", "Shutdown", "Cancel"}
INVARIANTS
  SignalsMatchGates
PROPERTIES
  SleepersWake
  ShutdownCloses
\* Everything may rest: nobody has to claim.
CHECK_DEADLOCK FALSE
