\* Gates are removed, and the ring is shut down or closed, while two producers sleep and claim.
SPECIFICATION Spec
CONSTANTS
  Producers = {p1, p2}
  Gates = {g1, g2}
  Admins = {a1}
  BufferSize = 1
  MaxSequence = 2
  MaxCopies = 1
  Calls = {"Remove", "Close", "Shutdown"}
SYMMETRY RegistrySymmetry
INVARIANTS
  TypeOK
  RegisteredProtected
  BlockedForAReason
  ShutdownDrains
\* Everything may rest: nobody has to claim.
CHECK_DEADLOCK FALSE
