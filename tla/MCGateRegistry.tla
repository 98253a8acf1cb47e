--------------------------- MODULE MCGateRegistry ----------------------------
(* Instances of GateRegistry for TLC: the symmetry of its goroutines. *)
EXTENDS GateRegistry, TLC

RegistrySymmetry ==
  Permutations(Producers) \cup Permutations(Gates) \cup Permutations(Admins)
=============================================================================
